---- MODULE Spec2Model ----
(***************************************************************************)
(* Foodgram backend (Django / Django REST framework): the relational store *)
(* and the request handlers that change it.                                *)
(*                                                                         *)
(* Tables are bags of rows, so that a duplicated row is something a state  *)
(* can hold; the uniqueness and check constraints of the models are        *)
(* enforced where the code inserts, as the database enforces them.         *)
(* A handler that raises maps to the HTTP status the framework answers     *)
(* with: ValidationError 400, NotAuthenticated 401, Http404 404, any       *)
(* unhandled exception (IntegrityError, TypeError, AttributeError) 500.    *)
(*                                                                         *)
(* The specifications share the variables:                                 *)
(*   Spec      the recipe write path (RecipeViewSet.create / update and    *)
(*             RecipeSerializer), from the empty store;                    *)
(*   SpecLists favorites and shopping cart, over stored recipes;           *)
(*   SpecSubs  subscriptions and their listing, over stored recipes;       *)
(*   SpecCart  the shopping list download and the two PDF generators;      *)
(*   SpecLinks short links, requests served one at a time;                 *)
(*   SpecRaceLinks, SpecRaceLists, SpecRaceUpdate                          *)
(*             two workers whose database statements interleave;           *)
(*   SpecCascade deletions of users and recipes;                           *)
(*   SpecWrite the recipe write path over a fixed set of request bodies;   *)
(*   SpecPerms the permission classes of the recipe, tag and ingredient    *)
(*             views, over two stored recipes;                             *)
(*   SpecFilter the recipe listing and its query filters;                  *)
(*   SpecRaceRedirect two workers following short links;                   *)
(*   SpecRolls, SpecRollsFair the random draws of ShortLink.save, without  *)
(*             and with fairness of the draws.                             *)
(*                                                                         *)
(* RecipeSerializer is modelled function by function: validate() reads the *)
(* raw request body (initial_data), create() and update() receive the      *)
(* ingredient items as {id, amount} and the tags as their bodies read      *)
(* them.                                                                   *)
(***************************************************************************)
EXTENDS Bags, FiniteSets, Integers, Sequences, TLC

\* ------------------------------------------------------------ universes
Users == {"u1", "u2"}
AnonymousUser == "AnonymousUser"
Callers == Users \cup {AnonymousUser}
TagIds == {1, 2}
IngredientIds == {1, 2}
Names == {"soup"}

\* Bounds of the model.
MaxRecipes == 1    \* recipes the write path creates; recipes SpecLists stores
MaxAmount == 1     \* largest amount of a submitted ingredient item
MaxLen == 2        \* longest submitted list of tags or of ingredient items
SeedRecipes == 2   \* recipes SpecSubs stores
MaxLimit == 2      \* largest recipes_limit of a request

\* Python's None, and a present optional value.
None == <<>>
Some(x) == <<x>>

VARIABLES
    Ingredient,        \* recipes.models.Ingredient: the pks in the catalog
    Recipe,            \* recipes.models.Recipe: rows [id, author, name, cooking_time]
    RecipeTag,         \* bag of rows [recipe, tag]
    RecipeIngredient,  \* bag of rows [recipe, ingredient, amount]
    Favorites,         \* bag of rows [user, recipe]
    ShoppingCart,      \* bag of rows [user, recipe]
    Subscription,      \* bag of rows [user, author]
    pending,           \* a recipe write that passed is_valid() and has not saved yet
    response,          \* the last response sent
    CustomUser,        \* users.models.CustomUser: the pks of the stored users
    ShortRecipeURL,    \* bag of rows [recipe, short_code]
    ShortLink,         \* bag of rows [full_url, short_url, requests_count, is_active]
    inflight           \* per worker: the request it is in the middle of, or None

vars == <<Ingredient, Recipe, RecipeTag, RecipeIngredient, Favorites,
          ShoppingCart, Subscription, pending, response,
          CustomUser, ShortRecipeURL, ShortLink, inflight>>

recipeStore == <<Ingredient, Recipe, RecipeTag, RecipeIngredient>>
listStore == <<Favorites, ShoppingCart>>
linkStore == <<ShortRecipeURL, ShortLink>>
sideStore == <<CustomUser, linkStore, inflight>>

\* The workers that serve requests side by side.
Workers == {"w1", "w2"}

\* Every user stored, no short link, no request in the middle of its handler.
SideInit ==
    /\ CustomUser = Users
    /\ ShortRecipeURL = EmptyBag
    /\ ShortLink = EmptyBag
    /\ inflight = [w \in Workers |-> None]

\* The Tag catalog is reference data that no handler of the model changes.
Tag == TagIds

\* ------------------------------------------------------------ ORM helpers
Range(s) == {s[i] : i \in DOMAIN s}
SeqsUpTo(S, n) == UNION {[1..k -> S] : k \in 0..n}

\* QuerySet.filter(...): the matching rows; .exists(); .delete().
filter(table, P(_)) == {row \in BagToSet(table) : P(row)}
exists(table, P(_)) == filter(table, P) # {}
delete(table, P(_)) == [row \in {r \in BagToSet(table) : ~P(r)} |-> table[row]]
count(table, P(_)) == BagCardinality([row \in filter(table, P) |-> table[row]])
insert(table, row) == table (+) SetToBag({row})

\* The part of the store the recipe write path reads and writes.
DB == [Ingredient |-> Ingredient, Recipe |-> Recipe, RecipeTag |-> RecipeTag,
       RecipeIngredient |-> RecipeIngredient]

\* AutoField primary key of a new Recipe row.
NewPk(rows) == IF rows = {} THEN 1
               ELSE (CHOOSE m \in {r.id : r \in rows} : \A r \in rows : r.id <= m) + 1

Raised(db, exc) == [db |-> db, exc |-> exc]
Returned(db) == [db |-> db, exc |-> "none"]

\* ------------------------------------------------------------ request data
\* An ingredient id as it arrives in the JSON body: the number 1 or the
\* string "1".  Python compares the two as different values; a primary-key
\* lookup (PrimaryKeyRelatedField, filter(id=...), get_object_or_404)
\* coerces both to the same key.
RawIngredientIds == {"int", "str"} \X IngredientIds
ParsePk(raw) == raw[2]
RawTagIds == TagIds \cup {0}
\* An amount as it arrives: <<"integer", n>> is the JSON number n (or its
\* digits as a string), <<"decimal", n>> is the JSON string "n.0".
RawAmounts == {"integer", "decimal"} \X (0..MaxAmount)
\* Python's int(): the number, or None where it raises ValueError.
int(raw) == IF raw[1] = "integer" THEN Some(raw[2]) ELSE None
\* rest_framework IntegerField.to_internal_value strips a trailing ".0"
\* before it calls int(), so it reads both spellings as n.
IntegerField_to_internal_value(raw) == raw[2]
RawItems == [id : RawIngredientIds, amount : RawAmounts]
RecipeData == [name : {Some(n) : n \in Names},
               cooking_time : {None} \cup {Some(t) : t \in 0..1},
               tags : SeqsUpTo(RawTagIds, MaxLen),
               ingredients : SeqsUpTo(RawItems, MaxLen)]

\* ------------------------------------------------------------ RecipeSerializer
\* check_ingredients_and_tags, the loop over the raw ingredient items.
RECURSIVE check_ingredient_items(_, _, _)
check_ingredient_items(db, ingredients, ingredient_ids) ==
    IF ingredients = <<>> THEN "none"
    ELSE LET ingredient_id == Head(ingredients).id
             amount == int(Head(ingredients).amount)
         IN IF amount = None THEN "ValueError"
            ELSE IF ingredient_id \in ingredient_ids THEN "duplicate_ingredient"
            ELSE IF ParsePk(ingredient_id) \notin db.Ingredient THEN "no_such_ingredient"
            ELSE IF amount[1] <= 0 THEN "amount"
            ELSE check_ingredient_items(db, Tail(ingredients),
                                        ingredient_ids \cup {ingredient_id})

\* The loop alone, without the tests on the two lists that come before it.
check_ingredient_items_only(db, ingredients, tags) ==
    check_ingredient_items(db, ingredients, {})
check_ingredients_and_tags(db, ingredients, tags) ==
    IF ingredients = <<>> THEN "no_ingredients"
    ELSE IF tags = <<>> THEN "no_tags"
    ELSE IF Cardinality(Tag \cap Range(tags)) # Len(tags) THEN "no_such_tag"
    ELSE check_ingredient_items(db, ingredients, {})

check_recipe_name_uniqueness(db, name, user, recipe_id) ==
    IF /\ recipe_id # None
       /\ \E r \in db.Recipe : /\ name # None /\ r.name = name[1]
                               /\ r.author = user /\ r.id # recipe_id[1]
    THEN "name" ELSE "none"

\* validate(): the first check that raises names the error; "none" passes.
validate(db, user, data, recipe_id) ==
    IF user = AnonymousUser THEN "not_authorized"
    ELSE LET e == check_ingredients_and_tags(db, data.ingredients, data.tags)
         IN IF e # "none" THEN e
            ELSE IF data.cooking_time = None \/ data.cooking_time[1] <= 0
                 THEN "cooking_time"
            ELSE check_recipe_name_uniqueness(db, data.name, user, recipe_id)

\* The declared fields: tags and ingredient ids are primary-key related
\* fields, so every one of them has to resolve to a row; create requires a name.
fields_valid(db, data, partial) ==
    /\ partial \/ data.name # None
    /\ Range(data.tags) \subseteq Tag
    /\ \A i \in DOMAIN data.ingredients :
          ParsePk(data.ingredients[i].id) \in db.Ingredient

is_valid(db, user, data, recipe_id) ==
    /\ fields_valid(db, data, recipe_id # None)
    /\ validate(db, user, data, recipe_id) = "none"

\* What save() hands to create() / update(): the ids as primary keys.
validated_data(user, data) ==
    [author |-> user, name |-> data.name, cooking_time |-> data.cooking_time,
     tags |-> data.tags,
     ingredients |-> [i \in DOMAIN data.ingredients |->
                         [id |-> ParsePk(data.ingredients[i].id),
                          amount |-> IntegerField_to_internal_value(
                                        data.ingredients[i].amount)]]]

\* A loop that creates a row for every item, whatever the recipe holds.
RECURSIVE create_ingredients_every_item(_, _, _)
create_ingredients_every_item(db, ingredients, recipe) ==
    IF ingredients = <<>> THEN Returned(db)
    ELSE create_ingredients_every_item(
             [db EXCEPT !.RecipeIngredient = insert(@,
                 [recipe |-> recipe, ingredient |-> Head(ingredients).id,
                  amount |-> Head(ingredients).amount])],
             Tail(ingredients), recipe)

RECURSIVE create_ingredients(_, _, _)
create_ingredients(db, ingredients, recipe) ==
    IF ingredients = <<>> THEN Returned(db)
    ELSE LET ingredient_id == Head(ingredients).id
             amount == Head(ingredients).amount
             same(row) == row.recipe = recipe /\ row.ingredient = ingredient_id
         IN IF ingredient_id \notin db.Ingredient THEN Raised(db, "Http404")
            ELSE IF amount <= 0 THEN Raised(db, "ValidationError")
            ELSE IF exists(db.RecipeIngredient, same)
            THEN LET existing_recipe_ingredient ==
                         CHOOSE row \in filter(db.RecipeIngredient, same) : TRUE
                     saved == [existing_recipe_ingredient EXCEPT
                                  !.amount = @ + amount]
                     others == db.RecipeIngredient
                                  (-) SetToBag({existing_recipe_ingredient})
                 IN create_ingredients(
                        [db EXCEPT !.RecipeIngredient = insert(others, saved)],
                        Tail(ingredients), recipe)
            ELSE create_ingredients(
                     [db EXCEPT !.RecipeIngredient = insert(@,
                         [recipe |-> recipe, ingredient |-> ingredient_id,
                          amount |-> amount])],
                     Tail(ingredients), recipe)

\* recipe.tags.set(existing_tags): rows of tags not in the new set go, rows
\* of tags that are missing are added.
create_tags(db, tags, recipe) ==
    LET existing_tags == Tag \cap Range(tags)
        stale(row) == row.recipe = recipe /\ row.tag \notin existing_tags
        kept == delete(db.RecipeTag, stale)
        missing == {t \in existing_tags :
                       [recipe |-> recipe, tag |-> t] \notin BagToSet(kept)}
    IN [db EXCEPT !.RecipeTag =
           kept (+) SetToBag({[recipe |-> recipe, tag |-> t] : t \in missing})]

\* Autocommit: every write stays, whatever follows it.
transaction_autocommit(db, out) == out
\* @transaction.atomic: an exception rolls every write of the call back.
transaction_atomic(db, out) ==
    IF out.exc = "none" THEN out ELSE Raised(db, out.exc)

create_body(db, vd) ==
    LET recipe == NewPk(db.Recipe)
        db1 == [db EXCEPT !.Recipe = @ \cup
                   {[id |-> recipe, author |-> vd.author, name |-> vd.name[1],
                     cooking_time |-> vd.cooking_time[1]]}]
        db2 == create_tags(db1, vd.tags, recipe)
    IN create_ingredients(db2, vd.ingredients, recipe)

create(db, vd) == transaction_atomic(db, create_body(db, vd))

update_body(db, recipe, vd) ==
    LET setattrs(r) ==
            [r EXCEPT
               !.name = IF vd.name = None THEN @ ELSE vd.name[1],
               !.cooking_time = IF vd.cooking_time = None THEN @
                                ELSE vd.cooking_time[1]]
        db1 == [db EXCEPT !.Recipe =
                   {IF r.id = recipe THEN setattrs(r) ELSE r : r \in @}]
        mine(row) == row.recipe = recipe
        out == IF vd.ingredients # <<>>
               THEN create_ingredients(
                        [db1 EXCEPT !.RecipeIngredient = delete(@, mine)],
                        vd.ingredients, recipe)
               ELSE Returned(db1)
    IN IF out.exc # "none" THEN out
       ELSE IF vd.tags # <<>>
            THEN Returned(create_tags(
                     [out.db EXCEPT !.RecipeTag = delete(@, mine)],
                     vd.tags, recipe))
            ELSE out

update(db, recipe, vd) == transaction_atomic(db, update_body(db, recipe, vd))

\* ------------------------------------------------------------ recipe requests
Status(exc) == CASE exc = "Http404" -> 404
                 [] exc = "ValidationError" -> 400
                 [] exc = "NotAuthenticated" -> 401
                 [] OTHER -> 500

Respond(op, status, exc) == [op |-> op, status |-> status, exc |-> exc]

\* The ingredient ids the "ingredients" field reports: PrimaryKeyRelatedField
\* answers 'Invalid pk "<id>" - object does not exist.' for every item
\* whose id has no Ingredient row.
does_not_exist(db, data) ==
    {ParsePk(data.ingredients[i].id) :
        i \in {j \in DOMAIN data.ingredients :
                  ParsePk(data.ingredients[j].id) \notin db.Ingredient}}

\* serializer.is_valid(raise_exception=True) on a body that is not valid:
\* ValidationError is answered 400 with the errors; the ValueError that
\* int() raises inside validate() is not caught and is answered 500.
raise_exception(op, db, user, data, recipe_id) ==
    IF /\ fields_valid(db, data, recipe_id # None)
       /\ validate(db, user, data, recipe_id) = "ValueError"
    THEN Respond(op, 500, "ValueError")
    ELSE [op |-> op, status |-> 400, exc |-> "ValidationError",
          detail |-> does_not_exist(db, data)]

\* RecipeViewSet.create as far as serializer.is_valid(): permission check,
\* field validation, validate().
RecipeViewSet_create(user, data) ==
    /\ pending = None
    /\ Cardinality(Recipe) < MaxRecipes
    /\ IF user = AnonymousUser
       THEN /\ response' = Respond("create", 401, "NotAuthenticated")
            /\ pending' = None
       ELSE IF ~is_valid(DB, user, data, None)
       THEN /\ response' = raise_exception("create", DB, user, data, None)
            /\ pending' = None
       ELSE /\ pending' = Some([op |-> "create", recipe |-> None,
                                validated_data |-> validated_data(user, data)])
            /\ UNCHANGED response
    /\ UNCHANGED <<sideStore, recipeStore, listStore, Subscription>>

\* CustomUser.is_admin is "self.is_superuser or self.is_admin": a superuser
\* gets True, for anyone else the property calls itself until Python
\* raises RecursionError.
Superusers == {"root"}
\* The frames the interpreter allows (sys.getrecursionlimit(), 1000 by default).
RecursionLimit == 3
\* One evaluation of the property at a stack depth: "or" returns True for a
\* superuser without reading self.is_admin, and reads it again otherwise.
RECURSIVE is_admin_frame(_, _)
is_admin_frame(user, depth) ==
    IF user \in Superusers THEN "True"
    ELSE IF depth >= RecursionLimit THEN "RecursionError"
    ELSE is_admin_frame(user, depth + 1)
is_admin(user) == is_admin_frame(user, 1)

\* The permission of RecipeViewSet on an unsafe method.  views.py names it
\* IsOwnerOrReadOnly; permissions.py defines it as IsAuthorOrAdminOrReadOnly.
has_permission(user) == user # AnonymousUser
has_object_permission(user, obj) ==
    IF obj.author = user THEN "True" ELSE is_admin(user)

\* RecipeViewSet.update as far as serializer.is_valid(): the permission
\* check, get_object() with the object-level check, then validation with
\* partial=True.
RecipeViewSet_update(user, pk, data) ==
    /\ pending = None
    /\ IF ~has_permission(user)
       THEN /\ response' = Respond("update", 401, "NotAuthenticated")
            /\ pending' = None
       ELSE IF ~\E r \in Recipe : r.id = pk
       THEN /\ response' = Respond("update", 404, "Http404")
            /\ pending' = None
       ELSE LET instance == CHOOSE r \in Recipe : r.id = pk
                allowed == has_object_permission(user, instance)
            IN IF allowed # "True"
               THEN /\ response' = Respond("update", Status(allowed), allowed)
                    /\ pending' = None
               ELSE IF ~is_valid(DB, user, data, Some(pk))
               THEN /\ response' = raise_exception("update", DB, user, data, Some(pk))
                    /\ pending' = None
               ELSE /\ pending' = Some([op |-> "update", recipe |-> Some(pk),
                                        validated_data |-> validated_data(user, data)])
                    /\ UNCHANGED response
    /\ UNCHANGED <<sideStore, recipeStore, listStore, Subscription>>

\* perform_create / perform_update: serializer.save() runs create() or
\* update() in its transaction, then the response is sent.
serializer_save ==
    /\ pending # None
    /\ LET p == pending[1]
           out == IF p.op = "create" THEN create(DB, p.validated_data)
                  ELSE update(DB, p.recipe[1], p.validated_data)
       IN /\ Ingredient' = out.db.Ingredient
          /\ Recipe' = out.db.Recipe
          /\ RecipeTag' = out.db.RecipeTag
          /\ RecipeIngredient' = out.db.RecipeIngredient
          /\ response' = IF out.exc = "none"
                         THEN Respond(p.op, IF p.op = "create" THEN 201 ELSE 200, "none")
                         ELSE Respond(p.op, Status(out.exc), out.exc)
    /\ pending' = None
    /\ UNCHANGED <<sideStore, listStore, Subscription>>

\* The admin site deletes a catalog ingredient; RecipeIngredient.ingredient
\* is on_delete=CASCADE.
IngredientAdmin_delete(i) ==
    /\ i \in Ingredient
    /\ Ingredient' = Ingredient \ {i}
    /\ RecipeIngredient' = delete(RecipeIngredient, LAMBDA row : row.ingredient = i)
    /\ UNCHANGED <<sideStore, Recipe, RecipeTag, listStore, Subscription, pending, response>>

\* ------------------------------------------------------------ specifications
NoResponse == Respond("none", 0, "none")

Init ==
    /\ Ingredient = IngredientIds
    /\ Recipe = {}
    /\ RecipeTag = EmptyBag
    /\ RecipeIngredient = EmptyBag
    /\ Favorites = EmptyBag
    /\ ShoppingCart = EmptyBag
    /\ Subscription = EmptyBag
    /\ pending = None
    /\ response = NoResponse
    /\ SideInit

\* The request bodies the handlers are driven with.  A body that fails
\* validation against the full catalog fails it in every state and is
\* answered the same way whatever it holds, so one body stands for each
\* reason of rejection; every body that some state accepts is kept.
FullCatalog == [Ingredient |-> IngredientIds, Recipe |-> {},
                RecipeTag |-> EmptyBag, RecipeIngredient |-> EmptyBag]
Defect(data) == IF ~fields_valid(FullCatalog, data, TRUE) THEN "field"
                ELSE validate(FullCatalog, CHOOSE u \in Users : TRUE, data, None)
WellFormed == {data \in RecipeData : Defect(data) = "none"}
Malformed == {CHOOSE data \in RecipeData : Defect(data) = e :
                 e \in {Defect(data) : data \in RecipeData} \ {"none"}}
RecipeBodies == WellFormed \cup Malformed

Next ==
    \/ \E user \in Callers, data \in RecipeBodies : RecipeViewSet_create(user, data)
    \/ \E user \in Callers, pk \in 1..MaxRecipes, data \in RecipeBodies :
          RecipeViewSet_update(user, pk, data)
    \/ serializer_save
    \/ \E i \in IngredientIds : IngredientAdmin_delete(i)

Spec == Init /\ [][Next]_vars

\* ------------------------------------------------------------ favorites and shopping cart
\* The two membership models; both declare UniqueConstraint(user, recipe).
ListModels == {"Favorites", "ShoppingCart"}
objects(model) == IF model = "Favorites" THEN Favorites ELSE ShoppingCart

\* What a handler leaves behind: the table, the status, the exception that
\* produced the status ("none" when the handler returned a Response).
Answer(db, status, exc) == [db |-> db, status |-> status, exc |-> exc]

\* model.objects.create(...): the unique constraint raises IntegrityError.
objects_create(table, row) ==
    IF row \in BagToSet(table) THEN Answer(table, 500, "IntegrityError")
    ELSE Answer(insert(table, row), 201, "none")

\* get_object_or_404(Recipe, id=recipe_id) finds a row.
recipe_exists(recipes, recipe_id) == \E r \in recipes : r.id = recipe_id

\* A POST that relies on the unique constraint alone.
handle_post_unchecked(table, recipes, user, recipe_id) ==
    IF user = AnonymousUser THEN Answer(table, 401, "NotAuthenticated")
    ELSE IF ~recipe_exists(recipes, recipe_id) THEN Answer(table, 404, "Http404")
    ELSE objects_create(table, [user |-> user, recipe |-> recipe_id])
\* BaseRecipeViewSet.handle_post behind permission_classes IsAuthenticated.
handle_post(table, recipes, user, recipe_id) ==
    LET row == [user |-> user, recipe |-> recipe_id]
    IN IF user = AnonymousUser THEN Answer(table, 401, "NotAuthenticated")
       ELSE IF ~recipe_exists(recipes, recipe_id) THEN Answer(table, 404, "Http404")
       ELSE IF exists(table, LAMBDA r : r = row) THEN Answer(table, 400, "none")
       ELSE objects_create(table, row)

\* A DELETE that does not look at the number of rows it deleted.
handle_delete_silent(table, recipes, user, recipe_id) ==
    IF user = AnonymousUser THEN Answer(table, 401, "NotAuthenticated")
    ELSE IF ~recipe_exists(recipes, recipe_id) THEN Answer(table, 404, "Http404")
    ELSE Answer(delete(table, LAMBDA r : r = [user |-> user, recipe |-> recipe_id]),
                204, "none")
\* BaseRecipeViewSet.handle_delete behind permission_classes IsAuthenticated.
handle_delete(table, recipes, user, recipe_id) ==
    LET row == [user |-> user, recipe |-> recipe_id]
        deleted == count(table, LAMBDA r : r = row)
    IN IF user = AnonymousUser THEN Answer(table, 401, "NotAuthenticated")
       ELSE IF ~recipe_exists(recipes, recipe_id) THEN Answer(table, 404, "Http404")
       ELSE IF deleted = 0 THEN Answer(table, 400, "ValidationError")
       ELSE Answer(delete(table, LAMBDA r : r = row), 204, "none")

\* RecipeActions.add_to_list: the lookup comes first and nothing checks
\* authentication; filter(user=AnonymousUser) raises TypeError.
add_to_list(table, recipes, user, pk) ==
    LET row == [user |-> user, recipe |-> pk]
    IN IF ~recipe_exists(recipes, pk) THEN Answer(table, 404, "Http404")
       ELSE IF user = AnonymousUser THEN Answer(table, 500, "TypeError")
       ELSE IF exists(table, LAMBDA r : r = row) THEN Answer(table, 400, "none")
       ELSE objects_create(table, row)

\* RecipeActions.remove_from_list: the lookup, then the authentication check.
remove_from_list(table, recipes, user, pk) ==
    LET row == [user |-> user, recipe |-> pk]
    IN IF ~recipe_exists(recipes, pk) THEN Answer(table, 404, "Http404")
       ELSE IF user = AnonymousUser THEN Answer(table, 401, "none")
       ELSE IF exists(table, LAMBDA r : r = row)
            THEN Answer(delete(table, LAMBDA r : r = row), 204, "none")
       ELSE Answer(table, 400, "none")

\* RecipeHandler.__delete_recipe: it is handed the recipe object.
delete_recipe(table, user, recipe) ==
    LET row == [user |-> user, recipe |-> recipe.id]
    IN IF user = AnonymousUser THEN Answer(table, 500, "TypeError")
       ELSE IF exists(table, LAMBDA r : r = row)
            THEN Answer(delete(table, LAMBDA r : r = row), 204, "none")
       ELSE Answer(table, 400, "none")

\* A request on a membership list: the table is written, the response sent.
ListRequest(op, model, user, recipe_id, out) ==
    /\ IF model = "Favorites"
       THEN Favorites' = out.db /\ UNCHANGED ShoppingCart
       ELSE ShoppingCart' = out.db /\ UNCHANGED Favorites
    /\ response' = [op |-> op, model |-> model, user |-> user,
                    recipe |-> recipe_id, status |-> out.status, exc |-> out.exc]
    /\ UNCHANGED <<sideStore, recipeStore, Subscription, pending>>

\* FavoritesViewSet.post / ShoppingCartViewSet.post and .delete.
BaseRecipeViewSet_post(user, recipe_id, model) ==
    ListRequest("handle_post", model, user, recipe_id,
                handle_post(objects(model), Recipe, user, recipe_id))
BaseRecipeViewSet_delete(user, recipe_id, model) ==
    ListRequest("handle_delete", model, user, recipe_id,
                handle_delete(objects(model), Recipe, user, recipe_id))
RecipeActions_add_to_list(user, pk, model) ==
    ListRequest("add_to_list", model, user, pk,
                add_to_list(objects(model), Recipe, user, pk))
RecipeActions_remove_from_list(user, pk, model) ==
    ListRequest("remove_from_list", model, user, pk,
                remove_from_list(objects(model), Recipe, user, pk))
RecipeHandler_delete_recipe(user, recipe, model) ==
    ListRequest("delete_recipe", model, user, recipe.id,
                delete_recipe(objects(model), user, recipe))

\* A store that accepted creations leave behind: n recipes of any authors,
\* each with a tag and an ingredient; no membership, no subscription yet.
Seeded(n) ==
    /\ Ingredient = IngredientIds
    /\ Recipe \in {{[id |-> i, author |-> f[i], name |-> "soup", cooking_time |-> 1] :
                       i \in 1..n} : f \in [1..n -> Users]}
    /\ RecipeTag = SetToBag({[recipe |-> i, tag |-> 1] : i \in 1..n})
    /\ RecipeIngredient = SetToBag({[recipe |-> i, ingredient |-> 1, amount |-> 1] :
                                       i \in 1..n})
    /\ Favorites = EmptyBag
    /\ ShoppingCart = EmptyBag
    /\ Subscription = EmptyBag
    /\ pending = None
    /\ response = NoResponse
    /\ SideInit

InitLists == Seeded(MaxRecipes)

\* The recipe ids of the requests: the stored ones and one that is absent.
RecipePks == 1..(MaxRecipes + 1)

NextLists ==
    \/ \E user \in Callers, id \in RecipePks, model \in ListModels :
          BaseRecipeViewSet_post(user, id, model)
    \/ \E user \in Callers, id \in RecipePks, model \in ListModels :
          BaseRecipeViewSet_delete(user, id, model)
    \/ \E user \in Callers, pk \in RecipePks, model \in ListModels :
          RecipeActions_add_to_list(user, pk, model)
    \/ \E user \in Callers, pk \in RecipePks, model \in ListModels :
          RecipeActions_remove_from_list(user, pk, model)
    \/ \E user \in Callers, recipe \in Recipe, model \in ListModels :
          RecipeHandler_delete_recipe(user, recipe, model)

SpecLists == InitLists /\ [][NextLists]_vars

\* ------------------------------------------------------------ subscriptions
\* The user ids a subscribe request can name: the users and an absent one.
AuthorPks == Users \cup {"nobody"}

\* The recipes_limit query parameter as it arrives: absent, a string of an
\* integer, or any other text.
RawLimits == {None} \cup {Some(<<"integer", n>>) : n \in (0 - 1)..MaxLimit}
                    \cup {Some(<<"text", 0>>)}
\* Subscription.objects.create(...): UniqueConstraint(user, author) and
\* CheckConstraint(user # author) raise IntegrityError.
Subscription_create(table, row) ==
    IF row \in BagToSet(table) \/ row.user = row.author
    THEN Answer(table, 500, "IntegrityError")
    ELSE Answer(insert(table, row), 201, "none")

\* A validation that only looks at authentication.
validate_subscription_any(user, author) ==
    IF user = AnonymousUser THEN "AuthenticationFailed" ELSE "None"
\* SubscriptionViewSet.validate_subscription: raises, returns the 400
\* response, or returns None.
validate_subscription(user, author) ==
    IF user = AnonymousUser THEN "AuthenticationFailed"
    ELSE IF user = author THEN "400"
    ELSE "None"

\* A subscribe that relies on the unique constraint alone.
subscribe_unchecked(table, user, pk, recipes_limit) ==
    IF user = AnonymousUser THEN Answer(table, 401, "NotAuthenticated")
    ELSE IF pk \notin CustomUser THEN Answer(table, 404, "Http404")
    ELSE IF validate_subscription(user, pk) = "400" THEN Answer(table, 400, "none")
    ELSE IF recipes_limit # None /\ int(recipes_limit[1]) = None
         THEN Answer(table, 400, "none")
    ELSE Subscription_create(table, [user |-> user, author |-> pk])
\* SubscriptionViewSet.subscribe behind permission_classes IsAuthenticated.
subscribe(table, user, pk, recipes_limit) ==
    LET row == [user |-> user, author |-> pk]
    IN IF user = AnonymousUser THEN Answer(table, 401, "NotAuthenticated")
       ELSE IF pk \notin CustomUser THEN Answer(table, 404, "Http404")
       ELSE IF validate_subscription(user, pk) = "AuthenticationFailed"
            THEN Answer(table, 401, "AuthenticationFailed")
       ELSE IF validate_subscription(user, pk) = "400"
            THEN Answer(table, 400, "none")
       ELSE IF exists(table, LAMBDA r : r = row) THEN Answer(table, 400, "none")
       ELSE IF recipes_limit # None /\ int(recipes_limit[1]) = None
            THEN Answer(table, 400, "none")
       ELSE Subscription_create(table, row)

\* An unsubscribe that does not look at the number of rows it deleted.
unsubscribe_silent(table, user, pk) ==
    IF user = AnonymousUser THEN Answer(table, 401, "NotAuthenticated")
    ELSE IF pk \notin CustomUser THEN Answer(table, 404, "Http404")
    ELSE IF validate_subscription(user, pk) = "400" THEN Answer(table, 400, "none")
    ELSE Answer(delete(table, LAMBDA r : r = [user |-> user, author |-> pk]),
                204, "none")
\* SubscriptionViewSet.unsubscribe behind permission_classes IsAuthenticated.
unsubscribe(table, user, pk) ==
    LET row == [user |-> user, author |-> pk]
        deleted == count(table, LAMBDA r : r = row)
    IN IF user = AnonymousUser THEN Answer(table, 401, "NotAuthenticated")
       ELSE IF pk \notin CustomUser THEN Answer(table, 404, "Http404")
       ELSE IF validate_subscription(user, pk) = "AuthenticationFailed"
            THEN Answer(table, 401, "AuthenticationFailed")
       ELSE IF validate_subscription(user, pk) = "400"
            THEN Answer(table, 400, "none")
       ELSE IF deleted = 0 THEN Answer(table, 400, "ValidationError")
       ELSE Answer(delete(table, LAMBDA r : r = row), 204, "none")

\* Recipe.objects.filter(author=...): Recipe orders by -pub_date, the
\* newest (highest id) first.
RECURSIVE newest_first(_)
newest_first(ids) ==
    IF ids = {} THEN <<>>
    ELSE LET top == CHOOSE i \in ids : \A j \in ids : j <= i
         IN <<top>> \o newest_first(ids \ {top})
recipes_of(recipes, author) == newest_first({r.id : r \in {x \in recipes : x.author = author}})

\* Python's xs[:k].
Min(a, b) == IF a <= b THEN a ELSE b
Max(a, b) == IF a >= b THEN a ELSE b
slice(xs, k) == IF k >= 0 THEN SubSeq(xs, 1, Min(k, Len(xs)))
                ELSE SubSeq(xs, 1, Max(Len(xs) + k, 0))

get_recipes_count(recipes, author) == Cardinality({r \in recipes : r.author = author})

\* The representation with every recipe of the author.
to_representation_full(instance, recipes, recipes_limit) ==
    [author |-> instance.author,
     recipes |-> recipes_of(recipes, instance.author),
     recipes_count |-> get_recipes_count(recipes, instance.author)]
\* SubscriptionSerializer.to_representation: the fields of the author, the
\* nested recipes cut to context["recipes_limit"] when it is there.
to_representation(instance, recipes, recipes_limit) ==
    [author |-> instance.author,
     recipes |-> IF recipes_limit # None
                 THEN slice(recipes_of(recipes, instance.author), recipes_limit[1])
                 ELSE recipes_of(recipes, instance.author),
     recipes_count |-> get_recipes_count(recipes, instance.author)]

\* api.views.CustomUserViewSet.subscriptions: the data of the response is
\* one entry per subscription of the user (a user follows fewer authors
\* than a page holds, so the page is the whole queryset).  AnonymousUser
\* has no subscriptions attribute.
subscriptions(table, recipes, user, recipes_limit) ==
    IF user = AnonymousUser
    THEN [status |-> 500, exc |-> "AttributeError", data |-> {}]
    ELSE IF recipes_limit # None /\ int(recipes_limit[1]) = None
    THEN [status |-> 400, exc |-> "none", data |-> {}]
    ELSE [status |-> 200, exc |-> "none",
          data |-> {to_representation(
                        instance, recipes,
                        IF recipes_limit = None THEN None ELSE int(recipes_limit[1])) :
                    instance \in filter(table, LAMBDA r : r.user = user)}]

\* users.views.CustomUserViewSet.subscriptions reads request.user.subscription,
\* an attribute no user model declares: AttributeError.
users_subscriptions(table, recipes, user, recipes_limit) ==
    IF user = AnonymousUser
    THEN [status |-> 401, exc |-> "NotAuthenticated", data |-> {}]
    ELSE [status |-> 500, exc |-> "AttributeError", data |-> {}]

SubscriptionRequest(op, user, pk, recipes_limit, out) ==
    /\ Subscription' = out.db
    /\ response' = [op |-> op, user |-> user, author |-> pk,
                    recipes_limit |-> recipes_limit,
                    status |-> out.status, exc |-> out.exc]
    /\ UNCHANGED <<sideStore, recipeStore, listStore, pending>>

SubscriptionViewSet_subscribe(user, pk, recipes_limit) ==
    SubscriptionRequest("subscribe", user, pk, recipes_limit,
                        subscribe(Subscription, user, pk, recipes_limit))
SubscriptionViewSet_unsubscribe(user, pk) ==
    SubscriptionRequest("unsubscribe", user, pk, None,
                        unsubscribe(Subscription, user, pk))

Listing(op, user, recipes_limit, out) ==
    /\ response' = [op |-> op, user |-> user, recipes_limit |-> recipes_limit,
                    status |-> out.status, exc |-> out.exc, data |-> out.data]
    /\ UNCHANGED <<sideStore, recipeStore, listStore, Subscription, pending>>

CustomUserViewSet_subscriptions(user, recipes_limit) ==
    Listing("subscriptions", user, recipes_limit,
            subscriptions(Subscription, Recipe, user, recipes_limit))
users_CustomUserViewSet_subscriptions(user, recipes_limit) ==
    Listing("users_subscriptions", user, recipes_limit,
            users_subscriptions(Subscription, Recipe, user, recipes_limit))

NextSubs ==
    \/ \E user \in Callers, pk \in AuthorPks, recipes_limit \in RawLimits :
          SubscriptionViewSet_subscribe(user, pk, recipes_limit)
    \/ \E user \in Callers, pk \in AuthorPks :
          SubscriptionViewSet_unsubscribe(user, pk)
    \/ \E user \in Callers, recipes_limit \in RawLimits :
          CustomUserViewSet_subscriptions(user, recipes_limit)
    \/ \E user \in Callers, recipes_limit \in RawLimits :
          users_CustomUserViewSet_subscriptions(user, recipes_limit)

InitSubs == Seeded(SeedRecipes)

SpecSubs == InitSubs /\ [][NextSubs]_vars

\* ------------------------------------------------------------ recipe write path: properties
\* A step in which serializer.save() answered the pending write.
Saved(op, status) ==
    /\ pending # None
    /\ pending[1].op = op
    /\ pending' = None
    /\ response'.status = status

\* The RecipeIngredient rows of a recipe are one row per submitted item,
\* with the item's ingredient and the item's amount, and nothing else.
RowsAreItems(table, recipe, items) ==
    /\ \A i, j \in DOMAIN items : items[i].id = items[j].id => i = j
    /\ \A i \in DOMAIN items :
          count(table, LAMBDA row : row = [recipe |-> recipe,
                                           ingredient |-> items[i].id,
                                           amount |-> items[i].amount]) = 1
    /\ count(table, LAMBDA row : row.recipe = recipe) = Len(items)

\* The RecipeTag rows of a recipe are one row per tag of the set.
RowsAreTags(table, recipe, tags) ==
    /\ \A t \in tags :
          count(table, LAMBDA row : row = [recipe |-> recipe, tag |-> t]) = 1
    /\ \A row \in filter(table, LAMBDA r : r.recipe = recipe) : row.tag \in tags

\* C1: an accepted creation persists exactly the submitted ingredient ids,
\* one RecipeIngredient row per id with the amount submitted for it; a
\* creation that submits the same ingredient id twice is never accepted, so
\* every accepted submission has pairwise different ids.
C1_CreatePersistsSubmittedIngredients ==
    [][Saved("create", 201) =>
          RowsAreItems(RecipeIngredient', NewPk(Recipe),
                       pending[1].validated_data.ingredients)]_vars

\* C2: after an accepted update the recipe's tag rows are the submitted tag
\* set and its ingredient rows are the submitted (id, amount) pairs: no
\* prior row survives and no amount is added to another.
C2_UpdateReplacesAssociations ==
    [][Saved("update", 200) =>
          /\ RowsAreTags(RecipeTag', pending[1].recipe[1],
                         Range(pending[1].validated_data.tags))
          /\ RowsAreItems(RecipeIngredient', pending[1].recipe[1],
                          pending[1].validated_data.ingredients)]_vars

\* C3: when create() or update() raises after its writes have begun, the
\* store (recipes, tag rows, ingredient rows, catalog) is exactly what it
\* was before the call.
C3_FailedWriteRollsBack ==
    [][(pending # None /\ pending' = None /\ response'.exc # "none")
          => recipeStore' = recipeStore]_vars

\* C3 witness: a create() that had inserted the Recipe row and its tags
\* failed on an ingredient the admin deleted after validation, and no
\* recipe is stored.
C3_Witness ==
    /\ response = Respond("create", 404, "Http404")
    /\ Recipe = {}
    /\ pending = None

\* ------------------------------------------------------------ favorites and shopping cart: properties
PostOps == {"handle_post", "add_to_list"}
DeleteOps == {"handle_delete", "remove_from_list", "delete_recipe"}

\* The step answers request op of user on recipe_id in the list model.
ListStep(ops, model, user, recipe_id) ==
    /\ response'.op \in ops
    /\ response'.model = model
    /\ response'.user = user
    /\ response'.recipe = recipe_id

Membership(user, recipe_id) == [user |-> user, recipe |-> recipe_id]

\* C4: in favorites and in the shopping cart, a POST for a (user, recipe)
\* pair that already has its row is answered 400 and the pair keeps exactly
\* one row; no state holds more than one row for a pair.
C4_DuplicateMembershipRejected ==
    /\ [](\A model \in ListModels, user \in Users, id \in RecipePks :
             CopiesIn(Membership(user, id), objects(model)) <= 1)
    /\ [][\A model \in ListModels, user \in Users, id \in RecipePks :
             (ListStep(PostOps, model, user, id)
                  /\ CopiesIn(Membership(user, id), objects(model)) >= 1)
             => /\ response'.status = 400
                /\ CopiesIn(Membership(user, id), objects(model)') = 1]_vars

\* C4 witness: a POST was answered 400 for a pair whose single row is stored.
C4_Witness ==
    /\ response.op \in PostOps
    /\ response.status = 400
    /\ response.user \in Users
    /\ CopiesIn(Membership(response.user, response.recipe),
                objects(response.model)) = 1

\* C5: in favorites and in the shopping cart, a DELETE for a pair without a
\* row is answered with a 4xx error and changes no membership row; a DELETE
\* for a pair with a row removes that row and no other.
C5_DeleteMembership ==
    [][\A model \in ListModels, user \in Users, id \in RecipePks :
          ListStep(DeleteOps, model, user, id)
          => /\ \A other \in ListModels \ {model} : objects(other)' = objects(other)
             /\ IF CopiesIn(Membership(user, id), objects(model)) = 0
                THEN /\ response'.status \in 400..499
                     /\ objects(model)' = objects(model)
                ELSE /\ response'.status = 204
                     /\ \A row \in BagToSet(objects(model)) :
                           CopiesIn(row, objects(model)') =
                              IF row = Membership(user, id) THEN 0
                              ELSE CopiesIn(row, objects(model))
                     /\ BagToSet(objects(model)') \subseteq BagToSet(objects(model))]_vars

\* C5 witness: a DELETE for a pair without a row was answered 400 while
\* other membership rows are stored.
C5_Witness ==
    /\ response.op \in DeleteOps
    /\ response.status = 400
    /\ response.user \in Users
    /\ CopiesIn(Membership(response.user, response.recipe),
                objects(response.model)) = 0
    /\ BagCardinality(Favorites) + BagCardinality(ShoppingCart) >= 2

\* C6: a POST or DELETE on favorites or the shopping cart by an anonymous
\* caller is answered 401 whether or not the recipe exists, and changes no
\* membership row.
C6_AnonymousGetsAuthError ==
    [][(/\ response'.op \in PostOps \cup {"handle_delete", "remove_from_list"}
        /\ response'.user = AnonymousUser)
          => /\ response'.status = 401
             /\ listStore' = listStore]_vars

\* ------------------------------------------------------------ subscriptions: properties
SubscriptionStep(op, user, author) ==
    /\ response'.op = op
    /\ response'.user = user
    /\ response'.author = author

Following(user, author) == [user |-> user, author |-> author]

\* C7: a subscribe request whose requesting user is the target author is
\* answered 400 in every state, and no state holds a Subscription row with
\* user equal to author.
C7_NoSelfSubscription ==
    /\ [](\A row \in BagToSet(Subscription) : row.user # row.author)
    /\ [][\A user \in Users :
             SubscriptionStep("subscribe", user, user)
             => response'.status = 400 /\ Subscription' = Subscription]_vars

\* C7 witness: a self-subscription was answered 400 while the user follows
\* somebody else.
C7_Witness ==
    /\ response.op = "subscribe"
    /\ response.user \in Users
    /\ response.author = response.user
    /\ response.status = 400
    /\ \E row \in BagToSet(Subscription) : row.user = response.user

\* C8 as stated: subscribing to an author who is already followed is
\* answered 400 and the pair keeps one row; subscribing to an author who is
\* not followed (and is not the follower) creates exactly one row.
C8_SubscribeCreatesOneRow ==
    [][\A user \in Users, author \in Users :
          SubscriptionStep("subscribe", user, author)
          => IF CopiesIn(Following(user, author), Subscription) >= 1
             THEN /\ response'.status = 400
                  /\ CopiesIn(Following(user, author), Subscription') = 1
             ELSE user # author
                  => CopiesIn(Following(user, author), Subscription') = 1]_vars

\* C8 amended: as C8, but a subscribe request for a pair without a row
\* creates the row only when recipes_limit is absent or is an integer;
\* with any other recipes_limit it is answered 400 and creates no row.  A
\* subscribe request changes no row of another pair.
C8_SubscribeCreatesOneRowUnlessBadLimit ==
    [][\A user \in Users, author \in Users :
          SubscriptionStep("subscribe", user, author)
          => /\ \A row \in BagToSet(Subscription) \cup BagToSet(Subscription') :
                   row # Following(user, author)
                   => CopiesIn(row, Subscription') = CopiesIn(row, Subscription)
             /\ IF CopiesIn(Following(user, author), Subscription) >= 1
                THEN /\ response'.status = 400
                     /\ CopiesIn(Following(user, author), Subscription') = 1
                ELSE user # author
                     => IF \/ response'.recipes_limit = None
                           \/ int(response'.recipes_limit[1]) # None
                        THEN /\ response'.status = 201
                             /\ CopiesIn(Following(user, author), Subscription') = 1
                        ELSE /\ response'.status = 400
                             /\ CopiesIn(Following(user, author), Subscription') = 0]_vars

\* C8 witness: a subscribe request with a recipes_limit that is no integer
\* was answered 400 for a pair that has no row.
C8_Witness ==
    /\ response.op = "subscribe"
    /\ response.user \in Users
    /\ response.author \in Users \ {response.user}
    /\ response.recipes_limit # None
    /\ int(response.recipes_limit[1]) = None
    /\ response.status = 400
    /\ CopiesIn(Following(response.user, response.author), Subscription) = 0

\* C9: an unsubscribe request for a pair without a row is answered with an
\* error (4xx, never a success) and changes no row; an unsubscribe request
\* for a pair with a row removes that row and no other.
C9_Unsubscribe ==
    [][\A user \in Users, author \in Users :
          SubscriptionStep("unsubscribe", user, author)
          => IF CopiesIn(Following(user, author), Subscription) = 0
             THEN /\ response'.status \in 400..499
                  /\ Subscription' = Subscription
             ELSE /\ response'.status = 204
                  /\ \A row \in BagToSet(Subscription) :
                        CopiesIn(row, Subscription') =
                           IF row = Following(user, author) THEN 0
                           ELSE CopiesIn(row, Subscription)
                  /\ BagToSet(Subscription') \subseteq BagToSet(Subscription)]_vars

\* C9 witness: an unsubscribe request for a pair without a row was answered
\* 400 while another subscription is stored.
C9_Witness ==
    /\ response.op = "unsubscribe"
    /\ response.user \in Users
    /\ response.author \in Users \ {response.user}
    /\ response.status = 400
    /\ CopiesIn(Following(response.user, response.author), Subscription) = 0
    /\ Subscription # EmptyBag

\* The listing that was just answered to an authenticated user with an
\* integer recipes_limit n >= 0.
ListedWithLimit ==
    /\ response.op \in {"subscriptions", "users_subscriptions"}
    /\ response.status = 200
    /\ response.recipes_limit # None
    /\ int(response.recipes_limit[1]) # None
    /\ int(response.recipes_limit[1])[1] >= 0

CartIngredientIds == {1, 2, 3}
ingredient_name(i) == IF i = 2 THEN "sugar" ELSE "salt"
measurement_unit(i) == IF i = 3 THEN "kg" ELSE "g"

\* The elements of a set of numbers in ascending order.
RECURSIVE ascending(_)
ascending(S) ==
    IF S = {} THEN <<>>
    ELSE LET m == CHOOSE x \in S : \A y \in S : x <= y
         IN <<m>> \o ascending(S \ {m})

\* ShoppingCart.objects.filter(user=request.user): the rows of the user, in
\* the order of the recipes' ids.
shopping_cart_items(cart, user) ==
    LET ids == ascending({row.recipe : row \in filter(cart, LAMBDA row : row.user = user)})
    IN [k \in DOMAIN ids |-> [user |-> user, recipe |-> ids[k]]]

\* recipe.recipe_ingredients.all(): the rows of the recipe, in the order of
\* the ingredients' ids.
recipe_ingredients_all(table, recipe) ==
    LET ids == ascending({row.ingredient :
                             row \in filter(table, LAMBDA row : row.recipe = recipe)})
    IN [k \in DOMAIN ids |->
           CHOOSE row \in BagToSet(table) :
               row.recipe = recipe /\ row.ingredient = ids[k]]

\* The rows the two nested loops visit, in the order they visit them.
RECURSIVE visited(_, _)
visited(table, items) ==
    IF items = <<>> THEN <<>>
    ELSE recipe_ingredients_all(table, Head(items).recipe) \o visited(table, Tail(items))

\* The body of the loops: the dictionary is keyed by the NAME of the
\* ingredient; a name already present has the amount added to its entry and
\* keeps the unit stored first.  The dictionary is the sequence of its
\* entries in insertion order.
dict_add(ingredients, row) ==
    LET n == ingredient_name(row.ingredient)
    IN IF \E k \in DOMAIN ingredients : ingredients[k].name = n
       THEN [k \in DOMAIN ingredients |->
                IF ingredients[k].name = n
                THEN [ingredients[k] EXCEPT !.amount = @ + row.amount]
                ELSE ingredients[k]]
       ELSE Append(ingredients, [name |-> n, amount |-> row.amount,
                                 unit |-> measurement_unit(row.ingredient)])

RECURSIVE ingredients_dict(_, _)
ingredients_dict(ingredients, rows) ==
    IF rows = <<>> THEN ingredients
    ELSE ingredients_dict(dict_add(ingredients, Head(rows)), Tail(rows))

\* What a shopping list request is answered with: the status, the exception
\* behind it, the content type and the lines drawn on the page.
Document(status, exc, content_type, lines) ==
    [status |-> status, exc |-> exc, content_type |-> content_type, lines |-> lines]

\* services/pdf_generator.py generate_pdf.  An empty argument is answered
\* with the text "cart is empty".  The elements are read as cart rows
\* (item.recipe): an element that is a dict has no such attribute.  The last
\* loop unpacks the (key, value) pairs of the dictionary into three names,
\* which fails for the first pair.
services_generate_pdf(table, items) ==
    IF items = <<>>
    THEN Document(200, "none", "text/plain", <<>>)
    ELSE IF "recipe" \notin DOMAIN Head(items)
    THEN Document(500, "AttributeError", "none", <<>>)
    ELSE IF ingredients_dict(<<>>, visited(table, items)) # <<>>
    THEN Document(500, "ValueError", "none", <<>>)
    ELSE Document(200, "none", "application/pdf", <<>>)

\* api/pdf_generator.py generate_pdf: no test for an empty cart; the
\* dictionary maps the name to the total and the line is "name: total".
api_generate_pdf(table, items) ==
    LET d == ingredients_dict(<<>>, visited(table, items))
    IN Document(200, "none", "application/pdf",
                [k \in DOMAIN d |-> [name |-> d[k].name, amount |-> d[k].amount,
                                     unit |-> ""]])

\* RecipeViewSet.download_shopping_cart: builds its own dictionary, turns it
\* into a list of dicts and hands that list to services generate_pdf.
download_shopping_cart(cart, table, user) ==
    LET ingredients == ingredients_dict(<<>>, visited(table, shopping_cart_items(cart, user)))
        ingredient_list == [k \in DOMAIN ingredients |->
                               [name |-> ingredients[k].name,
                                amount |-> ingredients[k].amount,
                                unit |-> ingredients[k].unit]]
    IN services_generate_pdf(table, ingredient_list)

ShoppingListRequest(op, user, out) ==
    /\ response' = [op |-> op, user |-> user, status |-> out.status, exc |-> out.exc,
                    content_type |-> out.content_type, lines |-> out.lines]
    /\ UNCHANGED <<sideStore, recipeStore, listStore, Subscription, pending>>

\* GET recipes/download_shopping_cart/ (permission IsAuthenticated).
RecipeViewSet_download_shopping_cart(user) ==
    ShoppingListRequest("download_shopping_cart", user,
        IF user = AnonymousUser
        THEN Document(401, "NotAuthenticated", "none", <<>>)
        ELSE download_shopping_cart(ShoppingCart, RecipeIngredient, user))

\* The two generators called with the cart rows of a user, the argument
\* their loops are written for.
services_pdf_generator_generate_pdf(user) ==
    ShoppingListRequest("services_generate_pdf", user,
        services_generate_pdf(RecipeIngredient, shopping_cart_items(ShoppingCart, user)))
api_pdf_generator_generate_pdf(user) ==
    ShoppingListRequest("api_generate_pdf", user,
        api_generate_pdf(RecipeIngredient, shopping_cart_items(ShoppingCart, user)))

\* SeedRecipes recipes, each with at least one catalog ingredient in an
\* amount of 1..MaxAmount; empty carts.
InitCart ==
    /\ Ingredient = CartIngredientIds
    /\ Recipe = {[id |-> i, author |-> "u1", name |-> "soup", cooking_time |-> 1] :
                    i \in 1..SeedRecipes}
    /\ RecipeTag = SetToBag({[recipe |-> i, tag |-> 1] : i \in 1..SeedRecipes})
    /\ \E g \in [1..SeedRecipes -> [CartIngredientIds -> 0..MaxAmount]] :
          /\ \A r \in 1..SeedRecipes : \E i \in CartIngredientIds : g[r][i] > 0
          /\ RecipeIngredient =
                SetToBag({row \in [recipe : 1..SeedRecipes, ingredient : CartIngredientIds,
                                    amount : 1..MaxAmount] :
                             row.amount = g[row.recipe][row.ingredient]})
    /\ Favorites = EmptyBag
    /\ ShoppingCart = EmptyBag
    /\ Subscription = EmptyBag
    /\ pending = None
    /\ response = NoResponse
    /\ SideInit

NextCart ==
    \/ \E user \in Users, id \in 1..SeedRecipes :
          BaseRecipeViewSet_post(user, id, "ShoppingCart")
    \/ \E user \in Users, id \in 1..SeedRecipes :
          BaseRecipeViewSet_delete(user, id, "ShoppingCart")
    \/ \E i \in CartIngredientIds : IngredientAdmin_delete(i)
    \/ \E user \in Callers : RecipeViewSet_download_shopping_cart(user)
    \/ \E user \in Users : services_pdf_generator_generate_pdf(user)
    \/ \E user \in Users : api_pdf_generator_generate_pdf(user)

SpecCart == InitCart /\ [][NextCart]_vars

\* ------------------------------------------------------------ shopping list: properties
ShoppingListOps == {"download_shopping_cart", "services_generate_pdf", "api_generate_pdf"}

\* The step answers a shopping list request op of user.
ShoppingListStep(op, user) ==
    /\ response'.op = op
    /\ response'.user = user
    /\ UNCHANGED <<Ingredient, RecipeIngredient, ShoppingCart>>

CartRecipes(user) ==
    {row.recipe : row \in filter(ShoppingCart, LAMBDA row : row.user = user)}
CartRows(user) ==
    filter(RecipeIngredient, LAMBDA row : row.recipe \in CartRecipes(user))
CartIngredients(user) == {row.ingredient : row \in CartRows(user)}

RECURSIVE SumOfAmounts(_)
SumOfAmounts(rows) ==
    IF rows = {} THEN 0
    ELSE LET row == CHOOSE r \in rows : TRUE
         IN row.amount + SumOfAmounts(rows \ {row})
Total(user, i) == SumOfAmounts({row \in CartRows(user) : row.ingredient = i})

\* C11: a shopping list request of a user whose cart is not empty is
\* answered with the list; the list has one line per ingredient of the
\* recipes in the user's cart and nothing else, and the amount of the line
\* is the sum of the ingredient's amounts over the recipes in that cart.
C11_ShoppingListSumsCartIngredients ==
    [][\A op \in ShoppingListOps, user \in Users :
          (ShoppingListStep(op, user) /\ CartRecipes(user) # {})
          => /\ response'.status = 200
             /\ response'.content_type = "application/pdf"
             /\ Len(response'.lines) = Cardinality(CartIngredients(user))
             /\ \A i \in CartIngredients(user) :
                   \E k \in DOMAIN response'.lines :
                      /\ response'.lines[k].name = ingredient_name(i)
                      /\ response'.lines[k].amount = Total(user, i)]_vars

C13_EmptyCartAnswer ==
    [][\A op \in ShoppingListOps, user \in Users :
          ShoppingListStep(op, user)
          => IF CartRecipes(user) = {}
             THEN /\ response'.status = 200
                  /\ response'.content_type = "text/plain"
             ELSE /\ response'.status = 200
                  /\ response'.content_type = "application/pdf"]_vars

\* ============================================================ short links
\* The short codes (random.choices(CHARACTERS, k=URL_LENGTH)) and the bounds
\* of the short link requests.
Codes == {"a", "b", "c"}
LinkRecipes == {1, 2}   \* the recipes the short link requests are about
MaxRolls == 2      \* draws of one run of the code generation loop
MaxRequests == 1   \* largest requests_count a redirection adds to
Blank == ""
Rolls == SeqsUpTo(Codes, MaxRolls) \ {<<>>}

\* The loop of ShortLink.save(): draw a code, draw again while a row with
\* that code exists.  rolls are the draws of one run: the last one is free,
\* every one before it is taken.
Terminates(taken, rolls) ==
    /\ rolls[Len(rolls)] \notin taken
    /\ \A k \in 1..(Len(rolls) - 1) : rolls[k] \in taken
generate_first_roll(taken, rolls) == rolls[1]
generate(taken, rolls) == rolls[Len(rolls)]

\* The URL of a recipe page.
recipe_url(id) == <<"recipes", id>>
FullUrls == {recipe_url(id) : id \in LinkRecipes}

\* ShortLink.save(): a code is generated only when short_url is blank; the
\* INSERT (adding) or UPDATE is refused by the unique constraints of
\* full_url and of short_url.
ShortLink_save(table, instance, adding, rolls) ==
    LET rows == BagToSet(table)
        short_url == IF instance.short_url = Blank
                     THEN generate({row.short_url : row \in rows}, rolls)
                     ELSE instance.short_url
        saved == [instance EXCEPT !.short_url = short_url]
        others == IF adding THEN rows
                  ELSE {row \in rows : row.full_url # instance.full_url}
    IN IF \E row \in others :
             row.full_url = saved.full_url \/ row.short_url = saved.short_url
       THEN Answer(table, 500, "IntegrityError")
       ELSE Answer(SetToBag(others \cup {saved}), 201, "none")

\* recipes.models.ShortRecipeURL, the model ShotLinkView and
\* redirect_to_original import: one row per recipe (recipe.short_url is the
\* reverse accessor of a one-to-one field), a unique short_code generated
\* when the row is created.
ShortRecipeURL_create(table, recipe, rolls) ==
    LET rows == BagToSet(table)
        short_code == generate({row.short_code : row \in rows}, rolls)
    IN IF \E row \in rows : row.recipe = recipe \/ row.short_code = short_code
       THEN Answer(table, 500, "IntegrityError")
       ELSE Answer(insert(table, [recipe |-> recipe, short_code |-> short_code]),
                   201, "none")

\* hasattr(recipe, "short_url")
has_short_url(table, recipe) == \E row \in BagToSet(table) : row.recipe = recipe
short_url_of(table, recipe) ==
    (CHOOSE row \in BagToSet(table) : row.recipe = recipe).short_code

\* What a short link request is answered with: the table, the status, the
\* exception behind it, the code in the payload, the target of the redirect.
Link(db, status, exc, code, location) ==
    [db |-> db, status |-> status, exc |-> exc, code |-> code, location |-> location]

\* ShotLinkView.get
get_always_create(table, recipes, id, rolls) ==
    IF ~recipe_exists(recipes, id) THEN Link(table, 404, "none", Blank, None)
    ELSE LET out == ShortRecipeURL_create(table, id, rolls)
         IN IF out.exc # "none" THEN Link(table, 500, out.exc, Blank, None)
            ELSE Link(out.db, 200, "none", short_url_of(out.db, id), None)
get(table, recipes, id, rolls) ==
    IF ~recipe_exists(recipes, id) THEN Link(table, 404, "none", Blank, None)
    ELSE IF ~has_short_url(table, id)
    THEN LET out == ShortRecipeURL_create(table, id, rolls)
         IN IF out.exc # "none" THEN Link(table, 500, out.exc, Blank, None)
            ELSE Link(out.db, 200, "none", short_url_of(out.db, id), None)
    ELSE Link(table, 200, "none", short_url_of(table, id), None)

\* services/redict_url.py redirect_to_original
redirect_to_original(table, short_code) ==
    LET found == filter(table, LAMBDA row : row.short_code = short_code)
    IN IF found = {} THEN Link(table, 404, "Http404", short_code, None)
       ELSE IF Cardinality(found) > 1
       THEN Link(table, 500, "MultipleObjectsReturned", short_code, None)
       ELSE LET url == CHOOSE row \in found : TRUE
            IN Link(table, 302, "none", short_code, Some(recipe_url(url.recipe)))

\* recipes/short_link_redirec.py get_full_url: KeyError for a code that is
\* not stored or not active; otherwise the count is raised and saved.
get_full_url(table, url) ==
    LET found == filter(table, LAMBDA row : row.short_url = url)
    IN IF found = {} THEN Link(table, 0, "KeyError", url, None)
       ELSE LET token == CHOOSE row \in found : TRUE
            IN IF ~token.is_active THEN Link(table, 0, "KeyError", url, None)
               ELSE LET out == ShortLink_save(
                                   table,
                                   [token EXCEPT !.requests_count = @ + 1],
                                   FALSE, <<>>)
                    IN Link(out.db, 0, out.exc, url, Some(token.full_url))

\* recipes/short_link_redirec.py redirection: every exception is caught and
\* its text is returned in an HttpResponse, whose status is 200.
redirection(table, short_url) ==
    LET out == get_full_url(table, short_url)
    IN IF out.exc = "none" THEN [out EXCEPT !.status = 302]
       ELSE Link(table, 200, out.exc, short_url, None)

LinkRequest(op, arg, rolls, out) ==
    /\ response' = [op |-> op, arg |-> arg, status |-> out.status, exc |-> out.exc,
                    code |-> out.code, location |-> out.location,
                    rolls |-> Len(rolls),
                    created |-> BagCardinality(ShortRecipeURL') + BagCardinality(ShortLink')
                                - BagCardinality(ShortRecipeURL) - BagCardinality(ShortLink)]
    /\ UNCHANGED <<recipeStore, listStore, Subscription, pending, CustomUser, inflight>>

\* GET recipes/<id>/get-link/
ShotLinkView_get(id, rolls) ==
    /\ Terminates({row.short_code : row \in BagToSet(ShortRecipeURL)}, rolls)
    /\ ShortRecipeURL' = get(ShortRecipeURL, Recipe, id, rolls).db
    /\ UNCHANGED ShortLink
    /\ LinkRequest("get", id, rolls, get(ShortRecipeURL, Recipe, id, rolls))

\* GET s/<short_code>/
redirect_url_redirect_to_original(short_code) ==
    /\ UNCHANGED linkStore
    /\ LinkRequest("redirect_to_original", short_code, <<>>,
                   redirect_to_original(ShortRecipeURL, short_code))

\* A ShortLink for a page is saved for the first time, with the code left
\* blank or given.
ShortLink_objects_create(full_url, short_url, rolls) ==
    LET instance == [full_url |-> full_url, short_url |-> short_url,
                     requests_count |-> 0, is_active |-> TRUE]
        out == ShortLink_save(ShortLink, instance, TRUE, rolls)
    IN /\ Terminates({row.short_url : row \in BagToSet(ShortLink)}, rolls)
       /\ ShortLink' = out.db
       /\ UNCHANGED ShortRecipeURL
       /\ LinkRequest("ShortLink_save", short_url, rolls,
                      Link(out.db, out.status, out.exc,
                           IF out.exc = "none"
                           THEN (CHOOSE row \in BagToSet(out.db) :
                                    row.full_url = full_url).short_url
                           ELSE Blank,
                           Some(full_url)))

\* The redirect view of recipes/short_link_redirec.py.
short_link_redirec_redirection(short_url) ==
    /\ \A row \in BagToSet(ShortLink) :
          row.short_url = short_url => row.requests_count < MaxRequests
    /\ ShortLink' = redirection(ShortLink, short_url).db
    /\ UNCHANGED ShortRecipeURL
    /\ LinkRequest("redirection", short_url, <<>>, redirection(ShortLink, short_url))

NextLinks ==
    \/ \E id \in LinkRecipes \cup {3}, rolls \in Rolls : ShotLinkView_get(id, rolls)
    \/ \E short_code \in Codes : redirect_url_redirect_to_original(short_code)
    \/ \E full_url \in FullUrls, short_url \in Codes \cup {Blank}, rolls \in Rolls :
          ShortLink_objects_create(full_url, short_url, rolls)
    \/ \E short_url \in Codes : short_link_redirec_redirection(short_url)

\* The recipes of LinkRecipes are stored; no short link is.
InitLinks ==
    /\ Ingredient = IngredientIds
    /\ Recipe = {[id |-> i, author |-> "u1", name |-> "soup", cooking_time |-> 1] :
                    i \in LinkRecipes}
    /\ RecipeTag = SetToBag({[recipe |-> i, tag |-> 1] : i \in LinkRecipes})
    /\ RecipeIngredient = SetToBag({[recipe |-> i, ingredient |-> 1, amount |-> 1] :
                                       i \in LinkRecipes})
    /\ Favorites = EmptyBag
    /\ ShoppingCart = EmptyBag
    /\ Subscription = EmptyBag
    /\ pending = None
    /\ response = NoResponse
    /\ SideInit

SpecLinks == InitLinks /\ [][NextLinks]_vars

\* ------------------------------------------------------------ short links: properties
\* The step answers short link request op with argument arg.
LinkStep(op, arg) ==
    /\ response'.op = op
    /\ response'.arg = arg

\* C14: resolving a short code that is not stored is answered with the
\* not-found error, never with a redirect or a success; resolving a stored
\* code is answered with the redirect to the page the code was stored for.
C14_ResolveShortCode ==
    [][\A code \in Codes :
          /\ LinkStep("redirect_to_original", code)
             => IF \E row \in BagToSet(ShortRecipeURL) : row.short_code = code
                THEN /\ response'.status = 302
                     /\ \E row \in BagToSet(ShortRecipeURL) :
                           /\ row.short_code = code
                           /\ response'.location = Some(recipe_url(row.recipe))
                ELSE response'.status = 404
          /\ LinkStep("redirection", code)
             => IF \E row \in BagToSet(ShortLink) : row.short_url = code
                THEN /\ response'.status = 302
                     /\ \E row \in BagToSet(ShortLink) :
                           /\ row.short_url = code
                           /\ response'.location = Some(row.full_url)
                ELSE response'.status = 404]_vars

\* C15: a link request for a recipe without a short code creates exactly
\* one row for it; a link request for a recipe that has one returns the
\* stored code and leaves the table as it is; no recipe ever has two rows;
\* a ShortLink that has a code keeps it through every save.
C15_LinkCreatedOnce ==
    /\ [](\A id \in LinkRecipes :
             count(ShortRecipeURL, LAMBDA row : row.recipe = id) <= 1)
    /\ [][\A id \in LinkRecipes :
             LinkStep("get", id)
             => /\ response'.status = 200
                /\ count(ShortRecipeURL', LAMBDA row : row.recipe = id) = 1
                /\ \E row \in BagToSet(ShortRecipeURL') :
                      row.recipe = id /\ row.short_code = response'.code
                /\ IF \E row \in BagToSet(ShortRecipeURL) : row.recipe = id
                   THEN ShortRecipeURL' = ShortRecipeURL
                   ELSE /\ BagCardinality(ShortRecipeURL')
                              = BagCardinality(ShortRecipeURL) + 1
                        /\ ShortRecipeURL \sqsubseteq ShortRecipeURL']_vars
    /\ [][\A row \in BagToSet(ShortLink) :
             \E kept \in BagToSet(ShortLink') :
                kept.full_url = row.full_url /\ kept.short_url = row.short_url]_vars

\* C15 witness: a link request for a recipe that had its code was answered
\* with that code and created nothing, and a ShortLink with a code was saved
\* again.
C15_Witness ==
    /\ response.op = "get"
    /\ response.status = 200
    /\ response.created = 0
    /\ \E row \in BagToSet(ShortRecipeURL) :
          row.recipe = response.arg /\ row.short_code = response.code
    /\ \E row \in BagToSet(ShortLink) : row.requests_count > 0

\* C16: no two ShortLink rows share a short code, and a ShortLink saved for
\* the first time with a blank code is stored with a code no stored row
\* has, however many of the drawn codes were taken.
C16_ShortCodesUnique ==
    /\ [](\A r1, r2 \in BagToSet(ShortLink) :
             /\ CopiesIn(r1, ShortLink) = 1
             /\ r1.short_url = r2.short_url => r1 = r2)
    /\ [][\A full_url \in FullUrls :
             (/\ LinkStep("ShortLink_save", Blank)
              /\ response'.location = Some(full_url)
              /\ ~ \E row \in BagToSet(ShortLink) : row.full_url = full_url)
             => /\ response'.status = 201
                /\ response'.code # Blank
                /\ ~ \E row \in BagToSet(ShortLink) : row.short_url = response'.code
                /\ \E row \in BagToSet(ShortLink') :
                      row.full_url = full_url /\ row.short_url = response'.code]_vars

\* C16 witness: the first code drawn for a new ShortLink was taken, the
\* second one was stored.
C16_Witness ==
    /\ response.op = "ShortLink_save"
    /\ response.arg = Blank
    /\ response.rolls = 2
    /\ response.status = 201
    /\ \E row \in BagToSet(ShortLink) : row.short_url = response.code
    /\ BagCardinality(ShortLink) = 2

\* ============================================================ requests served side by side
\* A handler that tests for a row and then creates it issues two database
\* statements; no handler of the views opens a transaction or takes a lock
\* around them, so the statements of the requests of two workers interleave.
\* inflight[w] is the request of worker w between two of its statements.
Idle(w) == inflight[w] = None
Proceed(w, request) == inflight' = [inflight EXCEPT ![w] = Some(request)]
Finish(w) == inflight' = [inflight EXCEPT ![w] = None]
Sent(w, op, arg, status, exc) ==
    response' = [op |-> op, worker |-> w, arg |-> arg, status |-> status, exc |-> exc]

\* ShotLinkView.get, first statements: Recipe.objects.get and
\* hasattr(recipe, "short_url").
ShotLinkView_get_hasattr(w, id) ==
    /\ Idle(w)
    /\ IF ~recipe_exists(Recipe, id)
       THEN Sent(w, "get", id, 404, "none") /\ UNCHANGED inflight
       ELSE IF has_short_url(ShortRecipeURL, id)
       THEN Sent(w, "get", id, 200, "none") /\ UNCHANGED inflight
       ELSE /\ Proceed(w, [op |-> "get", arg |-> id, stage |-> "generate"])
            /\ UNCHANGED response
    /\ UNCHANGED <<recipeStore, listStore, Subscription, pending, CustomUser, linkStore>>

\* ShortLink(full_url=...).save() begins with a blank code, for a page that
\* has no link when the request begins.
ShortLink_save_begin(w, full_url) ==
    /\ Idle(w)
    /\ ~ \E row \in BagToSet(ShortLink) : row.full_url = full_url
    /\ Proceed(w, [op |-> "ShortLink_save", arg |-> full_url, stage |-> "generate"])
    /\ UNCHANGED <<recipeStore, listStore, Subscription, pending, CustomUser, linkStore,
                   response>>

\* The loop of save(): the codes are drawn against the rows stored now.
save_generate(w, rolls) ==
    /\ ~Idle(w)
    /\ inflight[w][1].op \in {"get", "ShortLink_save"}
    /\ inflight[w][1].stage = "generate"
    /\ LET taken == IF inflight[w][1].op = "get"
                    THEN {row.short_code : row \in BagToSet(ShortRecipeURL)}
                    ELSE {row.short_url : row \in BagToSet(ShortLink)}
       IN /\ Terminates(taken, rolls)
          /\ Proceed(w, [op |-> inflight[w][1].op, arg |-> inflight[w][1].arg,
                         stage |-> "insert", code |-> generate(taken, rolls)])
    /\ UNCHANGED <<recipeStore, listStore, Subscription, pending, CustomUser, linkStore,
                   response>>

\* super().save(): the INSERT, under the unique constraints of the table;
\* neither save() nor the view catches IntegrityError.
save_insert(w) ==
    /\ ~Idle(w)
    /\ inflight[w][1].op \in {"get", "ShortLink_save"}
    /\ inflight[w][1].stage = "insert"
    /\ LET request == inflight[w][1]
           out == IF request.op = "get"
                  THEN ShortRecipeURL_create(ShortRecipeURL, request.arg, <<request.code>>)
                  ELSE ShortLink_save(ShortLink,
                                      [full_url |-> request.arg, short_url |-> request.code,
                                       requests_count |-> 0, is_active |-> TRUE],
                                      TRUE, <<>>)
       IN /\ IF request.op = "get"
             THEN ShortRecipeURL' = out.db /\ UNCHANGED ShortLink
             ELSE ShortLink' = out.db /\ UNCHANGED ShortRecipeURL
          /\ Sent(w, request.op, request.arg,
                  IF out.exc = "none" /\ request.op = "get" THEN 200 ELSE out.status,
                  out.exc)
    /\ Finish(w)
    /\ UNCHANGED <<recipeStore, listStore, Subscription, pending, CustomUser>>

NextRaceLinks ==
    \/ \E w \in Workers, id \in LinkRecipes \cup {3} : ShotLinkView_get_hasattr(w, id)
    \/ \E w \in Workers, full_url \in FullUrls : ShortLink_save_begin(w, full_url)
    \/ \E w \in Workers, rolls \in Rolls : save_generate(w, rolls)
    \/ \E w \in Workers : save_insert(w)

SpecRaceLinks == InitLinks /\ [][NextRaceLinks]_vars

\* ------------------------------------------------------------ short links side by side: properties
\* C17: when the requests of two workers need a new short link for the same
\* recipe, or draw the same code, one row per recipe and one row per code
\* is stored and the request that loses is answered with a client error,
\* not with the database's IntegrityError.
C17_ConcurrentLinkCreation ==
    /\ \A id \in LinkRecipes : count(ShortRecipeURL, LAMBDA row : row.recipe = id) <= 1
    /\ \A code \in Codes :
          /\ count(ShortRecipeURL, LAMBDA row : row.short_code = code) <= 1
          /\ count(ShortLink, LAMBDA row : row.short_url = code) <= 1
    /\ response.op \in {"get", "ShortLink_save"} => response.exc # "IntegrityError"

\* ------------------------------------------------------------ memberships and subscriptions side by side
RacePostOps == {"handle_post", "add_to_list"}

\* handle_post / add_to_list up to filter(user, recipe).exists(): the
\* request is answered here unless the handler goes on to objects.create.
post_exists(w, op, model, user, recipe_id) ==
    LET out == IF op = "handle_post"
               THEN handle_post(objects(model), Recipe, user, recipe_id)
               ELSE add_to_list(objects(model), Recipe, user, recipe_id)
        row == [user |-> user, recipe |-> recipe_id]
    IN /\ Idle(w)
       /\ IF out.status # 201
          THEN Sent(w, op, row, out.status, out.exc) /\ UNCHANGED inflight
          ELSE /\ Proceed(w, [op |-> op, model |-> model, row |-> row])
               /\ UNCHANGED response
       /\ UNCHANGED <<recipeStore, listStore, Subscription, pending, CustomUser, linkStore>>

\* model.objects.create(user=user, recipe=recipe), on the table as it is now.
post_create(w) ==
    /\ ~Idle(w)
    /\ inflight[w][1].op \in RacePostOps
    /\ LET request == inflight[w][1]
           out == objects_create(objects(request.model), request.row)
       IN /\ IF request.model = "Favorites"
             THEN Favorites' = out.db /\ UNCHANGED ShoppingCart
             ELSE ShoppingCart' = out.db /\ UNCHANGED Favorites
          /\ Sent(w, request.op, request.row, out.status, out.exc)
    /\ Finish(w)
    /\ UNCHANGED <<recipeStore, Subscription, pending, CustomUser, linkStore>>

\* SubscriptionViewSet.subscribe up to filter(user, author).exists().
subscribe_exists(w, user, pk) ==
    LET out == subscribe(Subscription, user, pk, None)
        row == [user |-> user, author |-> pk]
    IN /\ Idle(w)
       /\ IF out.status # 201
          THEN Sent(w, "subscribe", row, out.status, out.exc) /\ UNCHANGED inflight
          ELSE /\ Proceed(w, [op |-> "subscribe", row |-> row])
               /\ UNCHANGED response
       /\ UNCHANGED <<recipeStore, listStore, Subscription, pending, CustomUser, linkStore>>

\* Subscription.objects.create(user=user, author=author), on the table as
\* it is now.
subscribe_create(w) ==
    /\ ~Idle(w)
    /\ inflight[w][1].op = "subscribe"
    /\ LET request == inflight[w][1]
           out == Subscription_create(Subscription, request.row)
       IN /\ Subscription' = out.db
          /\ Sent(w, "subscribe", request.row, out.status, out.exc)
    /\ Finish(w)
    /\ UNCHANGED <<recipeStore, listStore, pending, CustomUser, linkStore>>

NextRaceLists ==
    \/ \E w \in Workers, op \in RacePostOps, model \in ListModels,
          user \in Users, recipe_id \in RecipePks :
          post_exists(w, op, model, user, recipe_id)
    \/ \E w \in Workers : post_create(w)
    \/ \E w \in Workers, user \in Users, pk \in AuthorPks : subscribe_exists(w, user, pk)
    \/ \E w \in Workers : subscribe_create(w)

SpecRaceLists == InitLists /\ [][NextRaceLists]_vars

\* C18: when two POSTs for the same (user, recipe) pair, or two subscribe
\* requests for the same (follower, author) pair, both pass the test for an
\* existing row, one row is stored and the other request is answered with
\* the 400 of the domain, not with the database's IntegrityError.
C18_ConcurrentDuplicateRejected ==
    /\ \A user \in Users, id \in RecipePks, model \in ListModels :
          CopiesIn([user |-> user, recipe |-> id], objects(model)) <= 1
    /\ \A user \in Users, author \in Users :
          CopiesIn([user |-> user, author |-> author], Subscription) <= 1
    /\ response.op \in RacePostOps \cup {"subscribe"} =>
          /\ response.exc # "IntegrityError"
          /\ response.status \in {201, 400, 404}

\* ============================================================ recipe updates side by side
\* RecipeSerializer.update runs under @transaction.atomic.  Its first
\* statement, recipe.save(), is an UPDATE of the Recipe row: the row stays
\* locked until the transaction ends, so a second update of the same recipe
\* waits at its own recipe.save().  The statements of an open transaction
\* write to the transaction's copy of the recipe's rows; other requests read
\* the committed tables.
UpdateStages == <<"save", "delete", "create_ingredients", "tags", "commit">>

\* The submissions of the update requests: ingredient items with distinct
\* ids in ascending order, one tag.
Submissions ==
    {vd \in [name : {Some("soup")}, cooking_time : {Some(1)},
             tags : {<<t>> : t \in TagIds},
             ingredients : SeqsUpTo([id : IngredientIds, amount : 1..MaxAmount],
                                    MaxLen) \ {<<>>}] :
        \A i, j \in DOMAIN vd.ingredients :
           i < j => vd.ingredients[i].id < vd.ingredients[j].id}

\* The request holds an open transaction that has written.
in_transaction_autocommit(request) == FALSE
in_transaction(request) == request.stage # "save"

\* Another worker holds the lock of the recipe's row.
locked(w, recipe) ==
    \E other \in Workers \ {w} :
       /\ inflight[other] # None
       /\ inflight[other][1].op = "update"
       /\ inflight[other][1].recipe = recipe
       /\ in_transaction(inflight[other][1])

\* The rows of the recipe taken from the transaction's copy, every other
\* row from the committed tables.
merged(db, local, recipe) ==
    [Ingredient |-> db.Ingredient,
     Recipe |-> {r \in db.Recipe : r.id # recipe} \cup {r \in local.Recipe : r.id = recipe},
     RecipeTag |-> delete(db.RecipeTag, LAMBDA row : row.recipe = recipe)
                      (+) delete(local.RecipeTag, LAMBDA row : row.recipe # recipe),
     RecipeIngredient |-> delete(db.RecipeIngredient, LAMBDA row : row.recipe = recipe)
                             (+) delete(local.RecipeIngredient,
                                        LAMBDA row : row.recipe # recipe)]

\* What the statement at a stage of update() makes of the tables it reads.
statement(db, recipe, vd, stage) ==
    CASE stage = "save" ->
           Returned([db EXCEPT !.Recipe =
                       {IF r.id = recipe
                        THEN [r EXCEPT !.name = vd.name[1],
                                       !.cooking_time = vd.cooking_time[1]]
                        ELSE r : r \in @}])
      [] stage = "delete" ->
           Returned([db EXCEPT !.RecipeIngredient =
                       delete(@, LAMBDA row : row.recipe = recipe)])
      [] stage = "create_ingredients" -> create_ingredients(db, vd.ingredients, recipe)
      [] stage = "tags" ->
           Returned(create_tags(
               [db EXCEPT !.RecipeTag = delete(@, LAMBDA row : row.recipe = recipe)],
               vd.tags, recipe))
      [] OTHER -> Returned(db)

next_stage(stage) ==
    UpdateStages[(CHOOSE k \in DOMAIN UpdateStages : UpdateStages[k] = stage) + 1]

\* serializer.save() of a validated update request begins.
update_begin(w, recipe, vd) ==
    /\ Idle(w)
    /\ recipe_exists(Recipe, recipe)
    /\ Proceed(w, [op |-> "update", recipe |-> recipe, vd |-> vd, stage |-> "save",
                   local |-> None])
    /\ UNCHANGED <<recipeStore, listStore, Subscription, pending, CustomUser, linkStore,
                   response>>

\* One statement of update().  Inside the transaction it reads and writes
\* the transaction's copy; without one it reads and writes the tables.
update_statement(w) ==
    /\ ~Idle(w)
    /\ inflight[w][1].op = "update"
    /\ inflight[w][1].stage # "commit"
    /\ ~locked(w, inflight[w][1].recipe)
    /\ LET request == inflight[w][1]
           view == IF in_transaction(request)
                   THEN merged(DB, request.local, request.recipe)
                   ELSE DB
           out == statement(view, request.recipe, request.vd, request.stage)
           after == [request EXCEPT !.stage = next_stage(@), !.local = out.db]
       IN /\ Proceed(w, after)
          /\ IF in_transaction(after)
             THEN UNCHANGED recipeStore
             ELSE /\ Recipe' = out.db.Recipe
                  /\ RecipeTag' = out.db.RecipeTag
                  /\ RecipeIngredient' = out.db.RecipeIngredient
                  /\ UNCHANGED Ingredient
    /\ UNCHANGED <<listStore, Subscription, pending, CustomUser, linkStore, response>>

\* The transaction commits and the response is sent.
update_commit(w) ==
    /\ ~Idle(w)
    /\ inflight[w][1].op = "update"
    /\ inflight[w][1].stage = "commit"
    /\ LET request == inflight[w][1]
           db == IF in_transaction(request)
                 THEN merged(DB, request.local, request.recipe)
                 ELSE DB
       IN /\ Recipe' = db.Recipe
          /\ RecipeTag' = db.RecipeTag
          /\ RecipeIngredient' = db.RecipeIngredient
          /\ UNCHANGED Ingredient
          /\ response' = [op |-> "update", worker |-> w, status |-> 200, exc |-> "none"]
    /\ Finish(w)
    /\ UNCHANGED <<listStore, Subscription, pending, CustomUser, linkStore>>

NextRaceUpdate ==
    \/ \E w \in Workers, vd \in Submissions : update_begin(w, 1, vd)
    \/ \E w \in Workers : update_statement(w)
    \/ \E w \in Workers : update_commit(w)

\* One stored recipe, with ingredient 1 and tag 1.
InitRaceUpdate ==
    /\ Ingredient = IngredientIds
    /\ Recipe = {[id |-> 1, author |-> "u1", name |-> "soup", cooking_time |-> 1]}
    /\ RecipeTag = SetToBag({[recipe |-> 1, tag |-> 1]})
    /\ RecipeIngredient = SetToBag({[recipe |-> 1, ingredient |-> 1, amount |-> 1]})
    /\ Favorites = EmptyBag
    /\ ShoppingCart = EmptyBag
    /\ Subscription = EmptyBag
    /\ pending = None
    /\ response = NoResponse
    /\ SideInit

SpecRaceUpdate == InitRaceUpdate /\ [][NextRaceUpdate]_vars

\* ------------------------------------------------------------ recipe updates side by side: properties
\* The ingredient rows and the tag rows of the recipe are those of the
\* submission, item by item.
IsSubmission(ingredients, tags, recipe, vd) ==
    /\ RowsAreItems(ingredients, recipe, vd.ingredients)
    /\ RowsAreTags(tags, recipe, Range(vd.tags))

\* C19: when two updates of the same recipe are served side by side, the
\* rows every request can read are, at every moment, exactly the rows of
\* one submission (or the rows before the updates): a commit leaves exactly
\* the committed submission, and no step other than a commit changes what
\* can be read, so the state between the deletion of the old rows and the
\* insertion of the new ones is never read.
C19_ConcurrentUpdates ==
    /\ [][\A w \in Workers :
             (/\ inflight[w] # None
              /\ inflight[w][1].op = "update"
              /\ inflight'[w] = None)
             => IsSubmission(RecipeIngredient', RecipeTag', 1, inflight[w][1].vd)]_vars
    /\ [][(\A w \in Workers : inflight'[w] = None => inflight[w] = None)
             => UNCHANGED recipeStore]_vars
    /\ [](\E vd \in Submissions : IsSubmission(RecipeIngredient, RecipeTag, 1, vd))

\* C19 witness: an update has run all its statements and is about to
\* commit a submission that differs from the stored rows, while the update
\* of the other worker, with another submission, waits at recipe.save().
C19_Witness ==
    \E w, other \in Workers :
       /\ inflight[w] # None /\ inflight[other] # None
       /\ inflight[w][1].stage = "commit"
       /\ inflight[other][1].stage = "save"
       /\ inflight[w][1].vd # inflight[other][1].vd
       /\ ~IsSubmission(RecipeIngredient, RecipeTag, 1, inflight[w][1].vd)
       /\ ~IsSubmission(RecipeIngredient, RecipeTag, 1, inflight[other][1].vd)

\* ============================================================ deletions
\* Every table that refers to a user or to a recipe.
Store == [CustomUser |-> CustomUser, Recipe |-> Recipe, RecipeTag |-> RecipeTag,
          RecipeIngredient |-> RecipeIngredient, Favorites |-> Favorites,
          ShoppingCart |-> ShoppingCart, Subscription |-> Subscription]

\* A foreign key that leaves the rows of a deleted object where they are.
on_delete_DO_NOTHING(table, field, pks) == table
\* on_delete=models.CASCADE: the rows that refer to a deleted object go.
on_delete_CASCADE(table, field, pks) == delete(table, LAMBDA row : row[field] \in pks)

\* Recipe.delete() of the recipes pks: RecipeTag.recipe,
\* RecipeIngredient.recipe, Favorites.recipe and ShoppingCart.recipe cascade.
delete_recipes(store, pks) ==
    [store EXCEPT
       !.Recipe = {r \in @ : r.id \notin pks},
       !.RecipeTag = on_delete_CASCADE(@, "recipe", pks),
       !.RecipeIngredient = on_delete_CASCADE(@, "recipe", pks),
       !.Favorites = on_delete_CASCADE(@, "recipe", pks),
       !.ShoppingCart = on_delete_CASCADE(@, "recipe", pks)]

\* CustomUser.delete(): Recipe.author cascades, and with every recipe its
\* own rows; Favorites.user, ShoppingCart.user, Subscription.user and
\* Subscription.author cascade.
delete_users(store, pks) ==
    LET recipes == {r.id : r \in {x \in store.Recipe : x.author \in pks}}
        s1 == delete_recipes(store, recipes)
    IN [s1 EXCEPT
          !.CustomUser = @ \ pks,
          !.Favorites = on_delete_CASCADE(@, "user", pks),
          !.ShoppingCart = on_delete_CASCADE(@, "user", pks),
          !.Subscription = on_delete_CASCADE(on_delete_CASCADE(@, "user", pks),
                                             "author", pks)]

\* The number of rows of the join tables.
Rows(store) ==
    BagCardinality(store.RecipeTag) + BagCardinality(store.RecipeIngredient)
    + BagCardinality(store.Favorites) + BagCardinality(store.ShoppingCart)
    + BagCardinality(store.Subscription)

\* The store is written and the request is answered; deleted counts the
\* join rows that went with the deleted object.
StoreRequest(op, store, status, exc) ==
    /\ CustomUser' = store.CustomUser
    /\ Recipe' = store.Recipe
    /\ RecipeTag' = store.RecipeTag
    /\ RecipeIngredient' = store.RecipeIngredient
    /\ Favorites' = store.Favorites
    /\ ShoppingCart' = store.ShoppingCart
    /\ Subscription' = store.Subscription
    /\ response' = [op |-> op, status |-> status, exc |-> exc,
                    deleted |-> Rows(Store) - Rows(store)]
    /\ UNCHANGED <<Ingredient, pending, linkStore, inflight>>

\* DELETE recipes/<pk>/ (ModelViewSet.destroy) behind the recipe permission.
RecipeViewSet_destroy(user, pk) ==
    IF ~has_permission(user)
    THEN StoreRequest("destroy", Store, 401, "NotAuthenticated")
    ELSE IF ~recipe_exists(Recipe, pk)
    THEN StoreRequest("destroy", Store, 404, "Http404")
    ELSE LET obj == CHOOSE r \in Recipe : r.id = pk
         IN IF has_object_permission(user, obj) # "True"
            THEN StoreRequest("destroy", Store, 500, has_object_permission(user, obj))
            ELSE StoreRequest("destroy", delete_recipes(Store, {pk}), 204, "none")

\* A user is deleted (the admin site, DELETE users/me/).
CustomUser_delete(user) ==
    /\ user \in CustomUser
    /\ StoreRequest("CustomUser_delete", delete_users(Store, {user}), 204, "none")

\* The requests that add rows, made by the stored users.
favorite_or_cart(user, recipe_id, model) ==
    LET out == handle_post(objects(model), Recipe, user, recipe_id)
    IN /\ user \in CustomUser
       /\ StoreRequest("handle_post",
                       IF model = "Favorites" THEN [Store EXCEPT !.Favorites = out.db]
                       ELSE [Store EXCEPT !.ShoppingCart = out.db],
                       out.status, out.exc)
follow(user, pk) ==
    LET out == subscribe(Subscription, user, pk, None)
    IN /\ user \in CustomUser
       /\ StoreRequest("subscribe", [Store EXCEPT !.Subscription = out.db],
                       out.status, out.exc)

NextCascade ==
    \/ \E user \in Callers, pk \in 1..(SeedRecipes + 1) : RecipeViewSet_destroy(user, pk)
    \/ \E user \in Users : CustomUser_delete(user)
    \/ \E user \in Users, id \in 1..(SeedRecipes + 1), model \in ListModels :
          favorite_or_cart(user, id, model)
    \/ \E user \in Users, pk \in AuthorPks : follow(user, pk)

\* SeedRecipes recipes, written in turn by the users u1 and u2, each with
\* a tag and an ingredient; no membership, no subscription yet.
InitCascade ==
    /\ Seeded(SeedRecipes)
    /\ \A r \in Recipe : r.author = IF r.id % 2 = 1 THEN "u1" ELSE "u2"

SpecCascade == InitCascade /\ [][NextCascade]_vars

\* ------------------------------------------------------------ deletions: properties
\* C20: whatever was requested, deletions of users and of recipes included,
\* every Favorites, ShoppingCart, RecipeIngredient, RecipeTag and
\* Subscription row refers to a stored user and a stored recipe, and every
\* stored recipe has a stored author: a deleted user's recipes and rows are
\* gone with the user.
C20_NoDanglingRows ==
    /\ \A r \in Recipe : r.author \in CustomUser
    /\ \A row \in BagToSet(RecipeTag) \cup BagToSet(RecipeIngredient) :
          recipe_exists(Recipe, row.recipe)
    /\ \A row \in BagToSet(Favorites) \cup BagToSet(ShoppingCart) :
          row.user \in CustomUser /\ recipe_exists(Recipe, row.recipe)
    /\ \A row \in BagToSet(Subscription) :
          row.user \in CustomUser /\ row.author \in CustomUser

\* C20 witness: a user was deleted and rows went with the user, while rows
\* of the other user are stored.
C20_Witness ==
    /\ response.op = "CustomUser_delete"
    /\ response.deleted > 2
    /\ CustomUser # {}
    /\ Recipe # {}
    /\ BagCardinality(Favorites) + BagCardinality(ShoppingCart) > 0

\* ------------------------------------------------------------ recipe validation: properties
\* The ingredient ids of a body that have no row in the catalog.
UnknownIds(data) ==
    {ParsePk(data.ingredients[i].id) : i \in DOMAIN data.ingredients} \ Ingredient

\* Some amount of the body is not a positive integer.
BadAmount(data) ==
    \E i \in DOMAIN data.ingredients :
       \/ data.ingredients[i].amount[1] # "integer"
       \/ data.ingredients[i].amount[2] <= 0

\* The step is user's create request with this body, or user's update
\* request with it on a recipe of their own.
WriteRequest(user, data) ==
    \/ RecipeViewSet_create(user, data)
    \/ \E pk \in 1..MaxRecipes :
          /\ \E r \in Recipe : r.id = pk /\ r.author = user
          /\ RecipeViewSet_update(user, pk, data)

\* C21: a create or update whose ingredient list holds an id without a
\* catalog row, or an amount that is not a positive integer, is answered
\* with a validation error (400) that names every id without a row, and the
\* recipes and their association rows are unchanged.
C21_BadIngredientsRejected ==
    [][\A user \in Users, data \in RecipeBodies :
          (WriteRequest(user, data) /\ (UnknownIds(data) # {} \/ BadAmount(data)))
          => /\ response'.status = 400
             /\ response'.exc = "ValidationError"
             /\ UnknownIds(data) \subseteq response'.detail
             /\ pending' = None
             /\ recipeStore' = recipeStore]_vars

\* ------------------------------------------------------------ recipe requests alone
\* The store as create and update requests alone build it: no admin action.
\* The bodies are listed one by one: every way a tag list or an ingredient
\* list can be empty, repeated, unknown or well formed, and each scalar
\* present or left out.
Item(kind, pk, spelling, n) == [id |-> <<kind, pk>>, amount |-> <<spelling, n>>]
WriteTags == {<<>>, <<1>>, <<2>>, <<1, 2>>, <<1, 1>>, <<0>>}
WriteIngredients == {<<>>,
                     <<Item("int", 1, "integer", 1)>>,
                     <<Item("int", 2, "integer", 1)>>,
                     <<Item("int", 1, "integer", 1), Item("int", 2, "integer", 1)>>,
                     <<Item("int", 1, "integer", 1), Item("str", 1, "integer", 1)>>,
                     <<Item("int", 1, "integer", 1), Item("int", 1, "integer", 1)>>,
                     <<Item("int", 1, "integer", 0)>>}
WriteBodies == [name : {Some(n) : n \in Names},
                cooking_time : {None, Some(1)},
                tags : WriteTags,
                ingredients : WriteIngredients]

NextWrite ==
    \/ \E user \in Callers, data \in WriteBodies : RecipeViewSet_create(user, data)
    \/ \E user \in Callers, pk \in 1..MaxRecipes, data \in WriteBodies :
          RecipeViewSet_update(user, pk, data)
    \/ serializer_save

SpecWrite == Init /\ [][NextWrite]_vars

\* ------------------------------------------------------------ recipe requests alone: properties
TagRows(recipe) == count(RecipeTag, LAMBDA row : row.recipe = recipe)
IngredientRows(recipe) == count(RecipeIngredient, LAMBDA row : row.recipe = recipe)

\* Every stored recipe has a tag row and an ingredient row, and no
\* (recipe, tag) row is stored twice.
RecipesAreComplete ==
    /\ \A r \in Recipe : TagRows(r.id) >= 1 /\ IngredientRows(r.id) >= 1
    /\ \A row \in BagToSet(RecipeTag) : CopiesIn(row, RecipeTag) = 1

\* The step accepted a submission: is_valid() passed and the write is pending.
Accepted == pending = None /\ pending' # None

\* C22: in every state that create and update requests reach, every stored
\* recipe has at least one tag and at least one ingredient and no tag id
\* occurs twice in its tag set; and no accepted submission has an empty
\* ingredient list, an empty tag list, an unknown tag id or a repeated tag id.
C22_RecipesKeepTagsAndIngredients ==
    /\ []RecipesAreComplete
    /\ [][Accepted =>
             LET vd == pending'[1].validated_data
             IN /\ vd.ingredients # <<>>
                /\ vd.tags # <<>>
                /\ \A i \in DOMAIN vd.tags : vd.tags[i] \in Tag
                /\ \A i, j \in DOMAIN vd.tags : vd.tags[i] = vd.tags[j] => i = j]_vars

\* C22 witness: an accepted update has replaced the tag set of a stored
\* recipe by the two submitted tags.
C22_Witness ==
    /\ response = Respond("update", 200, "none")
    /\ \E r \in Recipe : TagRows(r.id) = 2

\* C23: in every reachable state each (recipe, ingredient) pair has at most
\* one RecipeIngredient row and the amount of every row is greater than 0,
\* also after create_ingredients was handed a list that names one
\* ingredient more than once.
C23_OneRowPerIngredient ==
    \A row \in BagToSet(RecipeIngredient) :
       /\ CopiesIn(row, RecipeIngredient) = 1
       /\ row.amount > 0
       /\ \A other \in BagToSet(RecipeIngredient) :
             (other.recipe = row.recipe /\ other.ingredient = row.ingredient)
             => other = row

\* C23 witness: a creation whose list named ingredient 1 twice was saved;
\* the recipe holds one row for the ingredient, with the two amounts added.
C23_Witness ==
    /\ response = Respond("create", 201, "none")
    /\ \E row \in BagToSet(RecipeIngredient) :
          /\ row.amount = 2
          /\ IngredientRows(row.recipe) = 1

\* ------------------------------------------------------------ permissions
SAFE_METHODS == {"GET", "HEAD", "OPTIONS"}
Methods == SAFE_METHODS \cup {"POST", "PUT", "PATCH", "DELETE"}

\* IsAuthorOrAdminOrReadOnly for any method: has_permission and
\* has_object_permission above are its two tests on an unsafe method.
IsAuthorOrAdminOrReadOnly_has_permission(method, user) ==
    method \in SAFE_METHODS \/ has_permission(user)
IsAuthorOrAdminOrReadOnly_has_object_permission(method, user, obj) ==
    IF method \in SAFE_METHODS THEN "True" ELSE has_object_permission(user, obj)

\* IsAdminOrReadOnly.has_permission: "or" and "and" stop at the first
\* operand that decides, so is_admin is read for an authenticated caller of
\* an unsafe method only.
IsAdminOrReadOnly_has_permission(method, user) ==
    IF method \in SAFE_METHODS THEN "True"
    ELSE IF user = AnonymousUser THEN "False"
    ELSE is_admin(user)

\* APIView.permission_denied: an anonymous caller gets NotAuthenticated,
\* anyone else PermissionDenied.
permission_denied(user) ==
    IF user = AnonymousUser THEN "NotAuthenticated" ELSE "PermissionDenied"

\* GET recipes/<pk>/ (ModelViewSet.retrieve) behind the recipe permission.
RecipeViewSet_retrieve(user, pk) ==
    /\ response' =
          IF ~IsAuthorOrAdminOrReadOnly_has_permission("GET", user)
          THEN Respond("retrieve", Status(permission_denied(user)), permission_denied(user))
          ELSE IF ~recipe_exists(Recipe, pk) THEN Respond("retrieve", 404, "Http404")
          ELSE LET obj == CHOOSE r \in Recipe : r.id = pk
                   allowed == IsAuthorOrAdminOrReadOnly_has_object_permission("GET", user, obj)
               IN IF allowed = "True" THEN Respond("retrieve", 200, "none")
                  ELSE Respond("retrieve", 500, allowed)
    /\ UNCHANGED <<sideStore, recipeStore, listStore, Subscription, pending>>

\* A request to TagViewSet or IngredientViewSet (ReadOnlyModelViewSet behind
\* IsAdminOrReadOnly).  The permission is checked before the method is
\* looked up; handle_exception answers PermissionDenied with 405, a
\* permitted method the view does not have gets 405 as well, and an
\* exception that is not an APIException is answered 500.
ReadOnlyModelViewSet_dispatch(view, method, user) ==
    /\ LET allowed == IsAdminOrReadOnly_has_permission(method, user)
           out == IF allowed = "False"
                  THEN IF permission_denied(user) = "PermissionDenied"
                       THEN <<405, "PermissionDenied">>
                       ELSE <<401, "NotAuthenticated">>
                  ELSE IF allowed # "True" THEN <<500, allowed>>
                  ELSE IF method \in SAFE_METHODS THEN <<200, "none">>
                  ELSE <<405, "MethodNotAllowed">>
       IN response' = Respond(view, out[1], out[2])
    /\ UNCHANGED <<sideStore, recipeStore, listStore, Subscription, pending>>

\* The callers of the permission checks: the users, a superuser, an
\* anonymous caller.  Two recipes, one of each user.
PermCallers == Callers \cup Superusers
PermRecipes == {1, 2}
PermPks == PermRecipes \cup {3}
\* Two bodies of an update: one that is valid and replaces the tags, one
\* that is not valid.
PermBodies == {[name |-> Some("soup"), cooking_time |-> Some(1), tags |-> <<1, 2>>,
                ingredients |-> <<Item("int", 1, "integer", 1)>>],
               [name |-> Some("soup"), cooking_time |-> Some(1), tags |-> <<>>,
                ingredients |-> <<>>]}
ReadOnlyViews == {"TagViewSet", "IngredientViewSet"}

InitPerms ==
    /\ Ingredient = IngredientIds
    /\ Recipe = {[id |-> 1, author |-> "u1", name |-> "soup", cooking_time |-> 1],
                 [id |-> 2, author |-> "u2", name |-> "soup", cooking_time |-> 1]}
    /\ RecipeTag = SetToBag({[recipe |-> i, tag |-> 1] : i \in PermRecipes})
    /\ RecipeIngredient = SetToBag({[recipe |-> i, ingredient |-> 1, amount |-> 1] :
                                       i \in PermRecipes})
    /\ Favorites = EmptyBag
    /\ ShoppingCart = EmptyBag
    /\ Subscription = EmptyBag
    /\ pending = None
    /\ response = NoResponse
    /\ CustomUser = Users \cup Superusers
    /\ ShortRecipeURL = EmptyBag
    /\ ShortLink = EmptyBag
    /\ inflight = [w \in Workers |-> None]

NextPerms ==
    \/ \E user \in PermCallers, pk \in PermPks : RecipeViewSet_retrieve(user, pk)
    \/ \E user \in PermCallers, pk \in PermPks, data \in PermBodies :
          RecipeViewSet_update(user, pk, data)
    \/ serializer_save
    \/ \E user \in PermCallers, pk \in PermPks : RecipeViewSet_destroy(user, pk)
    \/ \E view \in ReadOnlyViews, method \in Methods, user \in PermCallers :
          ReadOnlyModelViewSet_dispatch(view, method, user)

SpecPerms == InitPerms /\ [][NextPerms]_vars

\* ------------------------------------------------------------ permissions: properties
\* user is stored, is not the author of the stored recipe pk and is no
\* administrator.
Outsider(user, pk) ==
    /\ user \in Users \ Superusers
    /\ \E r \in Recipe : r.id = pk /\ r.author # user

\* The step is a PATCH/PUT or a DELETE of user on recipe pk.
UnsafeRequest(user, pk) ==
    \/ RecipeViewSet_destroy(user, pk)
    \/ \E data \in PermBodies : RecipeViewSet_update(user, pk, data)

\* C24: every PATCH/PUT/DELETE of a recipe by an authenticated user who is
\* neither its author nor an administrator is answered with an
\* authorization error (403, or 405 where the view maps it) and changes no
\* recipe and no association row; a read of a stored recipe is answered 200
\* to every caller.
C24_OnlyAuthorOrAdminWrites ==
    [][/\ \A user \in Users, pk \in PermPks :
             (Outsider(user, pk) /\ UnsafeRequest(user, pk))
             => /\ response'.exc = "PermissionDenied"
                /\ response'.status \in {403, 405}
                /\ pending' = pending
                /\ <<recipeStore, listStore>>' = <<recipeStore, listStore>>
       /\ \A user \in PermCallers, pk \in PermPks :
             (recipe_exists(Recipe, pk) /\ RecipeViewSet_retrieve(user, pk))
             => response'.status = 200]_vars

\* C30: the admin check ends with a boolean for every user, False for an
\* authenticated user who is no superuser; so an unsafe request of such a
\* user is answered with a permission error by IsAdminOrReadOnly (the tag
\* and ingredient views) and by IsAuthorOrAdminOrReadOnly (a recipe of
\* another author).
C30_AdminCheckDecides ==
    [][/\ \A view \in ReadOnlyViews, method \in Methods \ SAFE_METHODS,
            user \in Users \cup Superusers :
             ReadOnlyModelViewSet_dispatch(view, method, user)
             => /\ is_admin(user) = IF user \in Superusers THEN "True" ELSE "False"
                /\ user \notin Superusers => response'.exc = "PermissionDenied"
       /\ \A user \in Users, pk \in PermPks :
             (Outsider(user, pk) /\ UnsafeRequest(user, pk))
             => /\ is_admin(user) = "False"
                /\ response'.exc = "PermissionDenied"]_vars

\* ------------------------------------------------------------ recipe list filters
\* A queryset of recipes is the bag of the ids it yields.
\* queryset.filter(<relation>__user=user): the join with the membership
\* table, one result per matching row.
filter_any_user(queryset, table, user) ==
    LET n(id) == CopiesIn(id, queryset) *
                 BagCardinality([row \in {r \in BagToSet(table) : r.recipe = id}
                                    |-> table[row]])
    IN [id \in {i \in BagToSet(queryset) : n(i) > 0} |-> n(id)]
filter_user(queryset, table, user) ==
    LET n(id) == CopiesIn(id, queryset) *
                 CopiesIn([user |-> user, recipe |-> id], table)
    IN [id \in {i \in BagToSet(queryset) : n(i) > 0} |-> n(id)]

\* RecipeFilter.filter_is_favorited and filter_is_in_shopping_cart.
filter_is_favorited(queryset, table, user, value) ==
    IF user # AnonymousUser /\ value THEN filter_user(queryset, table, user)
    ELSE queryset
filter_is_in_shopping_cart(queryset, table, user, value) ==
    IF user # AnonymousUser /\ value THEN filter_user(queryset, table, user)
    ELSE queryset

\* A flag of the query string: absent, true or false.
Flags == {None, Some(TRUE), Some(FALSE)}

\* GET recipes/ with the two flags: the filter set applies the method of
\* every flag that is present, one after the other.
RecipeViewSet_list(user, is_favorited, is_in_shopping_cart) ==
    /\ LET queryset == SetToBag({r.id : r \in Recipe})
           favorited == IF is_favorited = None THEN queryset
                        ELSE filter_is_favorited(queryset, Favorites, user,
                                                 is_favorited[1])
           results == IF is_in_shopping_cart = None THEN favorited
                      ELSE filter_is_in_shopping_cart(favorited, ShoppingCart, user,
                                                      is_in_shopping_cart[1])
       IN response' = [op |-> "list", user |-> user, is_favorited |-> is_favorited,
                       is_in_shopping_cart |-> is_in_shopping_cart,
                       results |-> results]
    /\ UNCHANGED <<sideStore, recipeStore, listStore, Subscription, pending>>

\* Two stored recipes; memberships come and go, lists are requested.
NextFilter ==
    \/ \E user \in Callers, id \in LinkRecipes, model \in ListModels :
          BaseRecipeViewSet_post(user, id, model)
    \/ \E user \in Callers, id \in LinkRecipes, model \in ListModels :
          BaseRecipeViewSet_delete(user, id, model)
    \/ \E user \in Callers, is_favorited \in Flags, is_in_shopping_cart \in Flags :
          RecipeViewSet_list(user, is_favorited, is_in_shopping_cart)

SpecFilter == InitLinks /\ [][NextFilter]_vars

\* ------------------------------------------------------------ recipe list filters: properties
\* The flag restricts the list of this caller.
Restricts(user, flag) == user \in Users /\ flag = Some(TRUE)

\* The stored recipes that pass the flags of the caller, each once.
Listed(user, is_favorited, is_in_shopping_cart) ==
    SetToBag({r.id : r \in
        {x \in Recipe :
            /\ Restricts(user, is_favorited)
                  => Membership(user, x.id) \in BagToSet(Favorites)
            /\ Restricts(user, is_in_shopping_cart)
                  => Membership(user, x.id) \in BagToSet(ShoppingCart)}})

\* C25: a recipe list filtered by is_favorited (by is_in_shopping_cart) holds,
\* for an authenticated caller and a true flag, exactly the recipes with a
\* Favorites (ShoppingCart) row of that caller, so never a recipe that only
\* another user listed; a false flag, and any flag of an anonymous caller,
\* restricts nothing.
C25_ListFilters ==
    [][response'.op = "list" =>
          response'.results = Listed(response'.user, response'.is_favorited,
                                     response'.is_in_shopping_cart)]_vars

\* C25 witness: u1 asked for their favorites while recipe 1 was a favorite
\* of u1 and recipe 2 a favorite of u2 only, and got recipe 1 alone.
C25_Witness ==
    /\ response.op = "list"
    /\ response.user = "u1"
    /\ response.is_favorited = Some(TRUE)
    /\ response.is_in_shopping_cart = None
    /\ Membership("u1", 1) \in BagToSet(Favorites)
    /\ Membership("u2", 2) \in BagToSet(Favorites)
    /\ Membership("u1", 2) \notin BagToSet(Favorites)
    /\ response.results = SetToBag({1})

\* The fields a PATCH may leave out, and a body without one of them: a list
\* that is left out is read as the empty list, a scalar as None.
Omittable == {"ingredients", "tags", "cooking_time"}
Omit(data, field) == [data EXCEPT ![field] = None]

\* The rows of a recipe in a table.
RowsOf(table, recipe) ==
    [row \in filter(table, LAMBDA r : r.recipe = recipe) |-> table[row]]

\* C26: an update is partial.  A PATCH by the author that leaves out the
\* ingredient list, the tag list or cooking_time of a body that is valid
\* with them is accepted; and an accepted update leaves the ingredient rows,
\* the tag rows and the cooking time it did not submit as they were.
C26_PartialUpdate ==
    /\ [][\A user \in Users, pk \in 1..MaxRecipes, data \in WriteBodies,
             field \in Omittable :
             (/\ \E r \in Recipe : r.id = pk /\ r.author = user
              /\ is_valid(DB, user, data, Some(pk))
              /\ RecipeViewSet_update(user, pk, Omit(data, field)))
             => pending' # None]_vars
    /\ [][Saved("update", 200) =>
             LET vd == pending[1].validated_data
                 pk == pending[1].recipe[1]
             IN /\ vd.ingredients = <<>>
                      => RowsOf(RecipeIngredient', pk) = RowsOf(RecipeIngredient, pk)
                /\ vd.tags = <<>> => RowsOf(RecipeTag', pk) = RowsOf(RecipeTag, pk)
                /\ vd.cooking_time = None
                      => \A r \in Recipe, s \in Recipe' :
                            (r.id = pk /\ s.id = pk)
                            => s.cooking_time = r.cooking_time]_vars

\* ============================================================ redirections side by side
\* get_full_url reads the row, adds one to the count of the object it read
\* and saves the object: a SELECT and, later, an UPDATE of every column of
\* the row.  Nothing locks the row in between, so the statements of two
\* redirections interleave, and so does a change of is_active.

\* ShortLink.objects.get(short_url__exact=url) and the test of is_active:
\* KeyError is caught by redirection() and answered with its text (200).
get_full_url_get(w, url) ==
    /\ Idle(w)
    /\ LET found == filter(ShortLink, LAMBDA row : row.short_url = url)
           token == CHOOSE row \in found : TRUE
       IN IF found = {} \/ ~token.is_active
          THEN /\ response' = [op |-> "redirection", worker |-> w, arg |-> url,
                               status |-> 200, exc |-> "KeyError", location |-> None]
               /\ UNCHANGED inflight
          ELSE /\ token.requests_count <= MaxRequests
               /\ Proceed(w, [op |-> "redirection", arg |-> url, token |-> token])
               /\ UNCHANGED response
    /\ UNCHANGED <<recipeStore, listStore, Subscription, pending, CustomUser, linkStore>>

\* token.requests_count += 1; token.save(); return redirect(full_link):
\* the UPDATE writes the columns of the object the worker holds over the row.
get_full_url_save(w) ==
    /\ ~Idle(w)
    /\ inflight[w][1].op = "redirection"
    /\ LET token == [inflight[w][1].token EXCEPT !.requests_count = @ + 1]
           others == delete(ShortLink, LAMBDA row : row.full_url = token.full_url)
       IN /\ ShortLink' = insert(others, token)
          /\ response' = [op |-> "redirection", worker |-> w,
                          arg |-> inflight[w][1].arg, status |-> 302, exc |-> "none",
                          location |-> Some(token.full_url)]
    /\ Finish(w)
    /\ UNCHANGED <<recipeStore, listStore, Subscription, pending, CustomUser,
                   ShortRecipeURL>>

\* The is_active column of a stored link is set (the field of the model;
\* no view writes it).
ShortLink_set_is_active(url, value) ==
    /\ \E row \in BagToSet(ShortLink) : row.short_url = url /\ row.is_active # value
    /\ ShortLink' = SetToBag({IF row.short_url = url
                              THEN [row EXCEPT !.is_active = value] ELSE row :
                                 row \in BagToSet(ShortLink)})
    /\ UNCHANGED <<recipeStore, listStore, Subscription, pending, CustomUser,
                   ShortRecipeURL, inflight, response>>

NextRaceRedirect ==
    \/ \E w \in Workers, url \in Codes : get_full_url_get(w, url)
    \/ \E w \in Workers : get_full_url_save(w)
    \/ \E url \in Codes, value \in BOOLEAN : ShortLink_set_is_active(url, value)

\* Two links are stored, "a" active and "b" not; "c" is no stored code.
InitRaceRedirect ==
    /\ Ingredient = IngredientIds
    /\ Recipe = {[id |-> i, author |-> "u1", name |-> "soup", cooking_time |-> 1] :
                    i \in LinkRecipes}
    /\ RecipeTag = SetToBag({[recipe |-> i, tag |-> 1] : i \in LinkRecipes})
    /\ RecipeIngredient = SetToBag({[recipe |-> i, ingredient |-> 1, amount |-> 1] :
                                       i \in LinkRecipes})
    /\ Favorites = EmptyBag
    /\ ShoppingCart = EmptyBag
    /\ Subscription = EmptyBag
    /\ pending = None
    /\ response = NoResponse
    /\ CustomUser = Users
    /\ ShortRecipeURL = EmptyBag
    /\ ShortLink = SetToBag({[full_url |-> recipe_url(1), short_url |-> "a",
                              requests_count |-> 0, is_active |-> TRUE],
                             [full_url |-> recipe_url(2), short_url |-> "b",
                              requests_count |-> 0, is_active |-> FALSE]})
    /\ inflight = [w \in Workers |-> None]

SpecRaceRedirect == InitRaceRedirect /\ [][NextRaceRedirect]_vars

\* ------------------------------------------------------------ redirections side by side: properties
\* The requests_count stored for a code.
requests_count(table, url) ==
    (CHOOSE row \in BagToSet(table) : row.short_url = url).requests_count

\* C27: the requests_count of a link is the number of successful
\* resolutions of its code.  Every resolution that is answered with the
\* redirect leaves the stored count of its code one above what it was, also
\* when another resolution of the code ran in between; every other step of
\* a redirection changes no count.
C27_RequestsCounted ==
    [][\A url \in Codes :
          /\ (response' # response /\ response'.arg = url /\ response'.status = 302)
             => requests_count(ShortLink', url) = requests_count(ShortLink, url) + 1
          /\ (response' # response /\ response'.status # 302)
             => \A row \in BagToSet(ShortLink) :
                   requests_count(ShortLink', row.short_url) = row.requests_count]_vars

\* C28: resolving the code of a link whose is_active is false is answered
\* with an error response, not with a redirect to the full URL, and the
\* link's requests_count stays as it was.
C28_InactiveNotResolved ==
    [][\A w \in Workers, row \in BagToSet(ShortLink) :
          (~row.is_active /\ get_full_url_get(w, row.short_url))
          => /\ response'.status >= 400
             /\ response'.location = None
             /\ ShortLink' = ShortLink]_vars

\* ============================================================ the code generation loop, draw by draw
\* ShortLink.objects.filter(short_url=...).exists()
exists_always(table, short_url) == TRUE
exists_short_url(table, short_url) ==
    \E row \in BagToSet(table) : row.short_url = short_url

\* One turn of the "while True" of ShortLink.save(): random.choices draws a
\* code; the loop breaks when no row has it and turns again otherwise.
save_roll(w, code) ==
    /\ ~Idle(w)
    /\ inflight[w][1].op = "ShortLink_save"
    /\ inflight[w][1].stage = "generate"
    /\ Proceed(w, [op |-> "ShortLink_save", arg |-> inflight[w][1].arg,
                   stage |-> IF exists_short_url(ShortLink, code)
                             THEN "generate" ELSE "insert",
                   code |-> code])
    /\ UNCHANGED <<recipeStore, listStore, Subscription, pending, CustomUser, linkStore,
                   response>>

\* One worker saves new links, one at a time; the loop draws code after
\* code.  The stored links are resolved meanwhile.
NextRolls ==
    \/ \E full_url \in FullUrls : ShortLink_save_begin("w1", full_url)
    \/ \E code \in Codes : save_roll("w1", code)
    \/ save_insert("w1")
    \/ \E short_url \in Codes : short_link_redirec_redirection(short_url)

SpecRolls == InitLinks /\ [][NextRolls]_vars

\* random.choices gives every code a positive probability at every draw, so
\* a loop that can draw a free code does not draw taken codes for ever; a
\* save that left the loop goes on to its INSERT.
free_roll == \E code \in Codes :
                 save_roll("w1", code) /\ ~exists_short_url(ShortLink, code)
SpecRollsFair ==
    /\ SpecRolls
    /\ WF_vars(free_roll)
    /\ WF_vars(save_insert("w1"))

\* ------------------------------------------------------------ the code generation loop: properties
\* The worker is saving the link of this page: in the loop, or at the INSERT.
Saving(full_url) ==
    /\ inflight["w1"] # None
    /\ inflight["w1"][1].arg = full_url
\* The save has returned and the page has its row.
Persisted(full_url) ==
    /\ inflight["w1"] = None
    /\ \E row \in BagToSet(ShortLink) : row.full_url = full_url

\* C29: the code generation ends.  While a code is free, a save that entered
\* the loop in time draws a code no row has, stores the row and returns;
\* as long as it draws, it stores nothing, and the code it stores is one
\* that no stored row had.
C29_GenerationTerminates ==
    /\ \A full_url \in FullUrls : Saving(full_url) ~> Persisted(full_url)
    /\ [][\A code \in Codes : save_roll("w1", code) => ShortLink' = ShortLink]_vars
    /\ [][save_insert("w1") =>
             /\ ~exists_short_url(ShortLink, inflight["w1"][1].code)
             /\ ShortLink' = insert(ShortLink,
                                    [full_url |-> inflight["w1"][1].arg,
                                     short_url |-> inflight["w1"][1].code,
                                     requests_count |-> 0, is_active |-> TRUE])]_vars

\* C29 witness: the loop has drawn the code of the stored link and turns
\* again; the page it saves has no row yet.
C29_Witness ==
    /\ inflight["w1"] # None
    /\ inflight["w1"][1].stage = "generate"
    /\ "code" \in DOMAIN inflight["w1"][1]
    /\ exists_short_url(ShortLink, inflight["w1"][1].code)
    /\ ~ \E row \in BagToSet(ShortLink) : row.full_url = inflight["w1"][1].arg

====
